---- MODULE Spec2Model ----
(***************************************************************************)
(* A model of the numeric core of FTRT-Cosmic-Evolution-Explorer: the      *)
(* correlation algorithms (utils/correlations), the statistics functions   *)
(* (utils/statistics) and the tidal-force (FTRT) calculator                *)
(* (services/ftrtCalculator, utils/dateHelpers, constants).                *)
(*                                                                         *)
(* Every function of the core is pure, so a specification draws the        *)
(* arguments of a call in Init and has one action per exported function:   *)
(* the action records which function was called (op) and what it returned  *)
(* or threw (ret).                                                         *)
(*                                                                         *)
(* Numbers.  A JavaScript number is an IEEE-754 double: every +, -, *, /   *)
(* and Math.sqrt returns the representable value nearest to the exact      *)
(* result (ties to the even significand), Infinity beyond the largest      *)
(* exponent, a subnormal or 0 below the smallest, NaN for 0/0 and the      *)
(* like.  The correlation and statistics functions are modelled in that    *)
(* arithmetic, with a significand of Precision bits and exponents up to    *)
(* EMax in place of the 53 bits and 1023 of a double; the operations are   *)
(* carried out in the order the code carries them out.  The tidal-force    *)
(* calculator, whose claims do not turn on rounding, is modelled in fixed  *)
(* point.  JavaScript arrays are 0-based, the sequences here 1-based.      *)
(*                                                                         *)
(* The dashboard's loadRealData and the loops over a range of dates are    *)
(* processes: loadRealData takes a step from each await to the next, a     *)
(* loop a step for each round.  detectSolarCycles,                         *)
(* detectGeomagneticReversals, detectPeaks, groupEventsByPeriod and        *)
(* getGeologicalPeriod are pure and modelled as the functions above are.   *)
(***************************************************************************)
EXTENDS Integers, Sequences, FiniteSets, TLC

\* Bounds of the checked input space.
MaxLen == 3        \* longest input array
MaxVal == 3        \* array elements are drawn from 0, 1 and MaxVal
MaxLagBound == 3   \* maxLag is drawn from 0..MaxLagBound
MaxRecs == 3       \* longest list of records handed to findOptimalLag
Precision == 3     \* bits of a significand (53 in a double)
EMax == 10         \* largest exponent of a finite number (1023 in a double)

VARIABLES
  x, y,        \* the two input arrays of a correlation call
  maxLag,      \* the maxLag argument of crossCorrelation
  records,     \* the list handed to findOptimalLag
  minDistance, \* the minDistance argument of detectPeaks
  date,        \* the Date handed to a call, as its local calendar fields
  endDate,     \* the endDate argument of calculateFTRTTimeSeries
  stepDays,    \* the stepDays argument of calculateFTRTTimeSeries
  ftrtSeries,  \* the series handed to detectFTRTPeaks
  threshold,   \* the threshold argument of detectFTRTPeaks
  planet1Name, \* the body name handed to a lookup
  planet2Name, \* the second body name of calculateSynodicPeriod
  data,        \* the array handed to a statistics function
  pct,         \* the percentile argument of percentile
  sample,      \* the sample argument of standardDeviation
  bins,        \* the bins argument of histogram
  multiplier,  \* the multiplier argument of detectOutliers
  loading,     \* the dashboard's loading flag
  solarData,   \* the dashboard's solar records
  geomagData,  \* the dashboard's geomagnetic records
  evolutionEvents,      \* the dashboard's list of evolutionary events
  currentSolarActivity, \* the dashboard's latest solar record
  pc,          \* where the dashboard's loadRealData is
  solarJson,   \* what the request of loadRealData came to
  currentDate, \* the currentDate of a loop over a range of dates
  dates,       \* the array such a loop has built so far
  events,      \* the catalog of events getAllEvents returns
  ageInMa,     \* the age handed to getGeologicalPeriod
  op,          \* the function that was called ("init" before the call)
  ret          \* what the call returned, or the error it threw

\* The arguments of the correlation functions, of the calculator and the
\* date helpers, and of the statistics functions.
correlationArgs == <<x, y, maxLag, records, minDistance>>
calculatorArgs ==
  <<date, endDate, stepDays, ftrtSeries, threshold, planet1Name, planet2Name>>
statisticsArgs == <<data, pct, sample, bins, multiplier>>

\* The state of the dashboard component.
dashboardState ==
  <<loading, solarData, geomagData, evolutionEvents, currentSolarActivity,
    pc, solarJson>>

\* The state of a loop over a range of dates.
loopState == <<currentDate, dates>>

\* The catalog of events and the argument of a lookup by age.
catalogArgs == <<events, ageInMa>>

\* The state of the stateful parts of the program, and the catalog.
processState == <<dashboardState, loopState, catalogArgs>>

vars ==
  <<correlationArgs, calculatorArgs, statisticsArgs, processState, op, ret>>

-----------------------------------------------------------------------------
(* Values *)

NoValue == [kind |-> "none"]
\* `throw new Error(...)`, and the TypeError of reduce on an empty array.
Thrown == [kind |-> "error"]

\* x[i] read past the end of an array, and the null that crossCorrelation
\* pads shiftedY with.
undefined == [kind |-> "undefined"]
null == [kind |-> "null"]

\* The finite number m * 2^e.  A number is kept in one form: 0 is Fin(0, 0),
\* a normal number has Precision significant bits in m, a subnormal one
\* fewer and the smallest exponent.
Fin(m, e) == [kind |-> "num", m |-> m, e |-> e]
\* Infinity (sign 1) and -Infinity (sign -1).
Inf(sign) == [kind |-> "inf", sign |-> sign]
NaN == [kind |-> "nan"]
Zero == Fin(0, 0)

Max(a, b) == IF a >= b THEN a ELSE b
Min(a, b) == IF a <= b THEN a ELSE b
Abs(n) == IF n < 0 THEN -n ELSE n
Sign(n) == IF n < 0 THEN -1 ELSE 1

SeqsUpTo(n, S) == UNION {[1..k -> S] : k \in 0..n}

-----------------------------------------------------------------------------
(* Number arithmetic *)

Pow2(k) == 2^k

RECURSIVE BitLen(_)
\* The number of bits of n >= 0.
BitLen(n) == IF n = 0 THEN 0 ELSE 1 + BitLen(n \div 2)

RECURSIVE ISqrt(_)
\* The integer part of the square root of n >= 0.
ISqrt(n) ==
  IF n < 2 THEN n
  ELSE LET s == 2 * ISqrt(n \div 4)
       IN IF (s + 1) * (s + 1) <= n THEN s + 1 ELSE s

\* The exponents of the last bit of the smallest and of the largest finite
\* numbers: normal numbers lie in 2^(1 - EMax) .. 2^(EMax + 1).
ELo == 2 - EMax - Precision
EHi == EMax - Precision + 1

\* The number sign * m * 2^e for a significand m that fits: overflow is
\* Infinity.
Pack(sign, m, e) ==
  IF m = 0 THEN Zero
  ELSE IF e > EHi THEN Inf(sign)
  ELSE Fin(sign * m, e)

\* The number nearest to sign * n * 2^e, n >= 0: round to nearest, ties to
\* the even significand, with gradual underflow.
Round(sign, n, e) ==
  IF n = 0 THEN Zero
  ELSE LET bits == BitLen(n)
           shift == Max(bits - Precision, ELo - e)
       IN IF shift <= 0
          THEN LET up == Min(Precision - bits, e - ELo)
               IN Pack(sign, n * Pow2(up), e - up)
          ELSE IF shift > bits THEN Zero
          ELSE LET unit == Pow2(shift)
                   q == n \div unit
                   r == n % unit
                   q1 == IF 2 * r > unit \/ (2 * r = unit /\ q % 2 = 1)
                         THEN q + 1 ELSE q
               IN IF q1 = Pow2(Precision)
                  THEN Pack(sign, Pow2(Precision - 1), e + shift + 1)
                  ELSE Pack(sign, q1, e + shift)

\* The number an integer literal or an integer-valued expression
\* (arr.length, rank + 1) stands for.
FromInt(n) == Round(Sign(n), Abs(n), 0)
One == FromInt(1)

\* ToNumber of an operand: undefined is NaN, null is 0.
ToNumber(v) ==
  IF v.kind = "undefined" THEN NaN
  ELSE IF v.kind = "null" THEN Zero
  ELSE v

\* a + b
Add(a0, b0) ==
  LET a == ToNumber(a0)
      b == ToNumber(b0)
  IN IF a.kind = "nan" \/ b.kind = "nan" THEN NaN
     ELSE IF a.kind = "inf"
          THEN (IF b.kind = "inf" /\ b.sign # a.sign THEN NaN ELSE a)
     ELSE IF b.kind = "inf" THEN b
     ELSE LET e == Min(a.e, b.e)
              n == a.m * Pow2(a.e - e) + b.m * Pow2(b.e - e)
          IN Round(Sign(n), Abs(n), e)

\* -a
Neg(a0) ==
  LET a == ToNumber(a0)
  IN IF a.kind = "nan" THEN NaN
     ELSE IF a.kind = "inf" THEN Inf(-a.sign)
     ELSE Fin(-a.m, a.e)

\* a - b
Sub(a, b) == Add(a, Neg(b))

\* a * b, which is also Math.pow(a, 2) for b = a.
Mul(a0, b0) ==
  LET a == ToNumber(a0)
      b == ToNumber(b0)
  IN IF a.kind = "nan" \/ b.kind = "nan" THEN NaN
     ELSE IF a.kind = "inf" \/ b.kind = "inf"
          THEN (IF a = Zero \/ b = Zero THEN NaN
                ELSE Inf((IF a.kind = "inf" THEN a.sign ELSE Sign(a.m))
                           * (IF b.kind = "inf" THEN b.sign ELSE Sign(b.m))))
     ELSE Round(Sign(a.m * b.m), Abs(a.m * b.m), a.e + b.e)

\* a / b.  The quotient of the significands is taken to 2 * Precision + 2
\* more bits than the dividend has, and what is left of it is a last bit
\* below them, which rounds as the exact quotient does.
Div(a0, b0) ==
  LET a == ToNumber(a0)
      b == ToNumber(b0)
  IN IF a.kind = "nan" \/ b.kind = "nan" THEN NaN
     ELSE IF a.kind = "inf"
          THEN (IF b.kind = "inf" THEN NaN ELSE Inf(a.sign * Sign(b.m)))
     ELSE IF b.kind = "inf" THEN Zero
     ELSE IF b.m = 0
          THEN (IF a.m = 0 THEN NaN ELSE Inf(Sign(a.m)))
     ELSE LET k == 2 * Precision + 2
              scaled == Abs(a.m) * Pow2(k)
              q == scaled \div Abs(b.m)
              sign == Sign(a.m) * Sign(b.m)
          IN IF scaled % Abs(b.m) = 0
             THEN Round(sign, q, a.e - b.e - k)
             ELSE Round(sign, 2 * q + 1, a.e - b.e - k - 1)

\* Math.sqrt(a), rounded like the quotient.
Sqrt(a0) ==
  LET a == ToNumber(a0)
  IN IF a.kind = "nan" THEN NaN
     ELSE IF a.kind = "inf" THEN (IF a.sign = 1 THEN a ELSE NaN)
     ELSE IF a.m < 0 THEN NaN
     ELSE IF a.m = 0 THEN Zero
     ELSE LET k == 2 * Precision + 2 + ((a.e - (2 * Precision + 2)) % 2)
              scaled == a.m * Pow2(k)
              root == ISqrt(scaled)
              e == (a.e - k) \div 2
          IN IF root * root = scaled
             THEN Round(1, root, e)
             ELSE Round(1, 2 * root + 1, e - 1)

\* a < b; false when either is NaN.
Less(a0, b0) ==
  LET a == ToNumber(a0)
      b == ToNumber(b0)
  IN IF a.kind = "nan" \/ b.kind = "nan" THEN FALSE
     ELSE IF a.kind = "inf"
          THEN a.sign = -1 /\ ~(b.kind = "inf" /\ b.sign = -1)
     ELSE IF b.kind = "inf" THEN b.sign = 1
     ELSE LET e == Min(a.e, b.e)
          IN a.m * Pow2(a.e - e) < b.m * Pow2(b.e - e)

\* Math.abs(a)
MathAbs(a0) ==
  LET a == ToNumber(a0)
  IN IF a.kind = "nan" THEN NaN
     ELSE IF a.kind = "inf" THEN Inf(1)
     ELSE Fin(Abs(a.m), a.e)

RECURSIVE SumTo(_, _)
\* arr.reduce((a, b) => a + b, 0) over the first k elements.
SumTo(arr, k) == IF k = 0 THEN Zero ELSE Add(SumTo(arr, k - 1), arr[k])

\* mean(arr) = sum / arr.length
mean(arr) == Div(SumTo(arr, Len(arr)), FromInt(Len(arr)))

-----------------------------------------------------------------------------
(* pearsonCorrelation *)

RECURSIVE PearsonLoop(_, _, _, _, _)
\* numerator, denomX and denomY after the first k rounds of the loop.
PearsonLoop(a, b, meanX, meanY, k) ==
  IF k = 0 THEN [numerator |-> Zero, denomX |-> Zero, denomY |-> Zero]
  ELSE LET sums == PearsonLoop(a, b, meanX, meanY, k - 1)
           dx == Sub(a[k], meanX)
           dy == Sub(b[k], meanY)
       IN [numerator |-> Add(sums.numerator, Mul(dx, dy)),
           denomX |-> Add(sums.denomX, Mul(dx, dx)),
           denomY |-> Add(sums.denomY, Mul(dy, dy))]

\* Mutation: the length check compares only against emptiness, and the
\* loop runs over the common prefix.
pearsonNoLengthCheck(a, b) ==
  IF Len(a) = 0 THEN Thrown
  ELSE LET n == Min(Len(a), Len(b))
           a1 == SubSeq(a, 1, n)
           b1 == SubSeq(b, 1, n)
           sums == PearsonLoop(a1, b1, mean(a1), mean(b1), n)
       IN IF sums.denomX = Zero \/ sums.denomY = Zero THEN Zero
          ELSE Div(sums.numerator, Sqrt(Mul(sums.denomX, sums.denomY)))

pearsonCorrelation(a, b) ==
  IF Len(a) # Len(b) \/ Len(a) = 0 THEN Thrown
  ELSE LET sums == PearsonLoop(a, b, mean(a), mean(b), Len(a))
       IN \* NaN === 0 is false
          IF sums.denomX = Zero \/ sums.denomY = Zero THEN Zero
          ELSE Div(sums.numerator, Sqrt(Mul(sums.denomX, sums.denomY)))

-----------------------------------------------------------------------------
(* getRanks and spearmanCorrelation *)

\* Mutation of the sort: an item goes before its equals, which
\* is what an unstable sort may do.
InsertBeforeEquals(s, item) ==
  LET pos == Cardinality({p \in 1..Len(s) : Less(s[p].val, item.val)})
  IN SubSeq(s, 1, pos) \o <<item>> \o SubSeq(s, pos + 1, Len(s))

\* Array.prototype.sort is stable: an item goes after every item already
\* placed that the comparator a.val - b.val does not put after it.
InsertStable(s, item) ==
  LET pos == Cardinality({p \in 1..Len(s) : ~Less(item.val, s[p].val)})
  IN SubSeq(s, 1, pos) \o <<item>> \o SubSeq(s, pos + 1, Len(s))

RECURSIVE SortedTo(_, _)
\* arr.map((val, idx) => ({val, idx})).sort(...), over the first k elements.
SortedTo(arr, k) ==
  IF k = 0 THEN <<>>
  ELSE InsertStable(SortedTo(arr, k - 1), [val |-> arr[k], idx |-> k])

\* sorted.forEach((item, rank) => ranks[item.idx] = rank + 1)
getRanks(arr) ==
  LET sorted == SortedTo(arr, Len(arr))
  IN [i \in 1..Len(arr) |->
        FromInt(CHOOSE rank \in 1..Len(arr) : sorted[rank].idx = i)]

spearmanCorrelation(a, b) ==
  IF Len(a) # Len(b) \/ Len(a) = 0 THEN Thrown
  ELSE pearsonCorrelation(getRanks(a), getRanks(b))

-----------------------------------------------------------------------------
(* rSquared and linearRegression *)

RECURSIVE TotalSumSquares(_, _, _)
\* observed.reduce((sum, val) => sum + Math.pow(val - meanObserved, 2), 0)
TotalSumSquares(observed, meanObserved, k) ==
  IF k = 0 THEN Zero
  ELSE LET d == Sub(observed[k], meanObserved)
       IN Add(TotalSumSquares(observed, meanObserved, k - 1), Mul(d, d))

RECURSIVE ResidualSumSquares(_, _, _)
\* observed.reduce((sum, val, i) => sum + Math.pow(val - predicted[i], 2), 0)
ResidualSumSquares(observed, predicted, k) ==
  IF k = 0 THEN Zero
  ELSE LET d == Sub(observed[k], predicted[k])
       IN Add(ResidualSumSquares(observed, predicted, k - 1), Mul(d, d))

rSquared(observed, predicted) ==
  IF Len(observed) # Len(predicted) \/ Len(observed) = 0 THEN Thrown
  ELSE LET n == Len(observed)
           totalSumSquares == TotalSumSquares(observed, mean(observed), n)
           residualSumSquares == ResidualSumSquares(observed, predicted, n)
       IN Sub(One, Div(residualSumSquares, totalSumSquares))

RECURSIVE RegressionLoop(_, _, _, _, _)
\* numerator and denominator after the first k rounds of the loop.
RegressionLoop(a, b, meanX, meanY, k) ==
  IF k = 0 THEN [numerator |-> Zero, denominator |-> Zero]
  ELSE LET sums == RegressionLoop(a, b, meanX, meanY, k - 1)
           dx == Sub(a[k], meanX)
       IN [numerator |-> Add(sums.numerator, Mul(dx, Sub(b[k], meanY))),
           denominator |-> Add(sums.denominator, Mul(dx, dx))]

linearRegression(a, b) ==
  IF Len(a) # Len(b) \/ Len(a) = 0 THEN Thrown
  ELSE LET n == Len(a)
           meanX == mean(a)
           meanY == mean(b)
           sums == RegressionLoop(a, b, meanX, meanY, n)
           slope == Div(sums.numerator, sums.denominator)
           intercept == Sub(meanY, Mul(slope, meanX))
           predicted == [i \in 1..n |-> Add(Mul(slope, a[i]), intercept)]
           r2 == rSquared(b, predicted)
       IN IF r2 = Thrown THEN Thrown
          ELSE [kind |-> "regression", slope |-> slope,
                intercept |-> intercept, r2 |-> r2, predicted |-> predicted]

-----------------------------------------------------------------------------
(* crossCorrelation and findOptimalLag *)

\* arr.slice(start, end) for 0-based start and end, negative ones counted
\* from the end of the array.
Slice(arr, start, end) ==
  LET n == Len(arr)
      from == IF start < 0 THEN Max(n + start, 0) ELSE Min(start, n)
      to == IF end < 0 THEN Max(n + end, 0) ELSE Min(end, n)
  IN SubSeq(arr, from + 1, to)

\* new Array(k).fill(null)
Nulls(k) == [i \in 1..k |-> null]

\* Mutation of the shift: the two directions swapped.
ShiftedYSwapped(b, lag) ==
  IF lag < 0 THEN Nulls(-lag) \o Slice(b, 0, lag)
  ELSE IF lag > 0 THEN Slice(b, lag, Len(b)) \o Nulls(lag)
  ELSE b

\* shiftedY of one round of the loop.
ShiftedY(b, lag) ==
  IF lag > 0 THEN Nulls(lag) \o Slice(b, 0, -lag)
  ELSE IF lag < 0 THEN Slice(b, -lag, Len(b)) \o Nulls(-lag)
  ELSE b

RECURSIVE ValidIndicesTo(_, _)
\* shiftedY.map((val, idx) => val !== null ? idx : null).filter(...), over
\* the first k positions, in ascending order.
ValidIndicesTo(shiftedY, k) ==
  IF k = 0 THEN <<>>
  ELSE IF shiftedY[k] # null
       THEN Append(ValidIndicesTo(shiftedY, k - 1), k)
       ELSE ValidIndicesTo(shiftedY, k - 1)

\* One round of the loop: the record pushed for `lag`, or nothing.
LagRecords(a, b, lag) ==
  LET shiftedY == ShiftedY(b, lag)
      validIndices == ValidIndicesTo(shiftedY, Len(shiftedY))
      validX == [k \in 1..Len(validIndices) |->
                   IF validIndices[k] <= Len(a) THEN a[validIndices[k]]
                   ELSE undefined]
      validY == [k \in 1..Len(validIndices) |-> shiftedY[validIndices[k]]]
  IN IF Len(validX) > 0
     THEN <<[lag |-> lag,
             correlation |-> pearsonCorrelation(validX, validY),
             dataPoints |-> Len(validX)]>>
     ELSE <<>>

RECURSIVE CrossFrom(_, _, _, _)
\* for (let lag = from; lag <= maxLag; lag++) { ... }
CrossFrom(a, b, lag, top) ==
  IF lag > top THEN <<>>
  ELSE LagRecords(a, b, lag) \o CrossFrom(a, b, lag + 1, top)

\* No check of the arguments: the call never throws.
crossCorrelation(a, b, top) ==
  [kind |-> "list", list |-> CrossFrom(a, b, -top, top)]

\* Mutation of the comparison: >= lets a later equal record win.
AbsGreaterOrEqual(c, m) ==
  Less(MathAbs(m), MathAbs(c)) \/ MathAbs(m) = MathAbs(c)

\* Math.abs(c.correlation) > Math.abs(m.correlation); false when either is NaN.
AbsGreater(c, m) == Less(MathAbs(m), MathAbs(c))

RECURSIVE ReduceMax(_, _)
\* results.reduce((max, current) => ...) over the first k records; with no
\* initial value the first record is the first max.
ReduceMax(results, k) ==
  IF k = 1 THEN results[1]
  ELSE LET max == ReduceMax(results, k - 1)
           current == results[k]
       IN IF AbsGreater(current.correlation, max.correlation)
          THEN current ELSE max

\* reduce of an empty array with no initial value throws a TypeError.
findOptimalLag(results) ==
  IF Len(results) = 0 THEN Thrown
  ELSE [kind |-> "record", record |-> ReduceMax(results, Len(results))]

-----------------------------------------------------------------------------
(* dateHelpers: dateToJulianDay *)

\* A Date is modelled by what getFullYear(), getMonth() (0-based) and
\* getDate() return for it.
IsLeapYear(year) ==
  (year % 4 = 0 /\ year % 100 # 0) \/ year % 400 = 0

DaysInMonth(year, month) ==
  IF month = 1 THEN (IF IsLeapYear(year) THEN 29 ELSE 28)
  ELSE IF month \in {3, 5, 8, 10} THEN 30 ELSE 31

\* Mutation of dateToJulianDay: the century rule (- y / 100 + y / 400) left
\* out, which counts a 29 February in every fourth year.
julianDayWithoutCenturyRule(d) ==
  LET a == (14 - (d.month + 1)) \div 12
      yy == d.year + 4800 - a
      m == (d.month + 1) + 12 * a - 3
  IN d.day + (153 * m + 2) \div 5 + 365 * yy + yy \div 4 - 32045

\* Math.floor(p / q) is \div for q > 0.
dateToJulianDay(d) ==
  LET a == (14 - (d.month + 1)) \div 12
      yy == d.year + 4800 - a
      m == (d.month + 1) + 12 * a - 3
  IN d.day + (153 * m + 2) \div 5 + 365 * yy + yy \div 4 - yy \div 100
       + yy \div 400 - 32045

-----------------------------------------------------------------------------
(* constants *)

\* Fixed-point units: mass in 1e20 kg, semiMajorAxis in 1e8 m, period in
\* hundredths of a day, forces in 1e-14 N.
PLANETS ==
  [mercury |-> [mass |-> 3301, semiMajorAxis |-> 579, period |-> 8797],
   venus |-> [mass |-> 48670, semiMajorAxis |-> 1082, period |-> 22470],
   earth |-> [mass |-> 59720, semiMajorAxis |-> 1496, period |-> 36525],
   mars |-> [mass |-> 6417, semiMajorAxis |-> 2279, period |-> 68698],
   jupiter |-> [mass |-> 18980000, semiMajorAxis |-> 7785, period |-> 433259],
   saturn |-> [mass |-> 5683000, semiMajorAxis |-> 14335, period |-> 1075922],
   uranus |-> [mass |-> 868100, semiMajorAxis |-> 28725, period |-> 3068850],
   neptune |-> [mass |-> 1024000, semiMajorAxis |-> 44951, period |-> 6018200]]

\* Object.keys(PLANETS): the keys in the order the table is written.
PlanetKeys ==
  <<"mercury", "venus", "earth", "mars", "jupiter", "saturn", "uranus",
    "neptune">>

\* 6.674e-11, in 1e-14 m^3 kg^-1 s^-2.
GRAVITATIONAL_CONSTANT == 6674
\* 6.96e8 m, in 1e6 m.
SUN_RADIUS == 696

\* The exact fraction num / den, den # 0.
Ratio(num, den) == [kind |-> "ratio", num |-> num, den |-> den]

\* The decimal number m * 10^e.
Dec(m, e) == [m |-> m, e |-> e]
\* 1e15 N.
FTRT_REFERENCE_FORCE == Dec(1, 15)
\* The exponent of the unit forces are carried in: 1e-14 N.
ForceUnit == Dec(1, -14)

-----------------------------------------------------------------------------
(* ftrtCalculator *)

\* 1000 * Math.cos(2 * pi * turn / 200) for turn in 0..199, by Bhaskara's
\* rational approximation of the cosine (within 2 of the true value).
Cos1000(turn) ==
  LET B(v) == (1000 * (10000 - 4 * v * v)) \div (10000 + v * v)
  IN IF turn <= 50 THEN B(turn)
     ELSE IF turn < 150 THEN -B(turn - 100)
     ELSE B(200 - turn)

\* PLANETS is an object literal, so PLANETS[planetName] finds the table's own
\* keys and, for any other name, what Object.prototype holds under it:
\* these names are inherited by every object.
ObjectPrototypeKeys ==
  {"constructor", "toString", "toLocaleString", "valueOf", "hasOwnProperty",
   "isPrototypeOf", "propertyIsEnumerable", "__proto__"}

\* An inherited property: a function or an object, truthy, without the
\* fields mass, semiMajorAxis and period (reading them gives undefined).
inherited == [kind |-> "inherited"]

\* PLANETS[planetName]
PlanetsAt(planetName) ==
  IF planetName \in DOMAIN PLANETS THEN PLANETS[planetName]
  ELSE IF planetName \in ObjectPrototypeKeys THEN inherited
  ELSE undefined

\* A force in 1e-14 N.
Force(n) == [kind |-> "force", n |-> n]

\* Mutation: the planet's mass left out of the force (every planet is
\* given the mass of the Earth).
tidalForceWithoutMass(planetName, julianDay) ==
  LET planet == PlanetsAt(planetName)
  IN IF planet = undefined THEN Force(0)
     ELSE IF planet = inherited THEN NaN
     ELSE LET turn == (((julianDay * 100) % planet.period) * 200)
                        \div planet.period
              distance == (planet.semiMajorAxis
                             * (1000 + (50 * Cos1000(turn)) \div 1000))
                            \div 1000
              twoGR == (2 * GRAVITATIONAL_CONSTANT * SUN_RADIUS) \div 1000
          IN Force((((((PLANETS.earth.mass * 100) \div distance) * 1000)
                       \div distance) * twoGR) \div distance)

\* if (!planet) return 0: only undefined is falsy here.
\* meanAnomaly = 2 * pi * julianDay / period, as 200ths of a turn;
\* distance = semiMajorAxis * (1 + 0.05 * cos(meanAnomaly));
\* tidalForce = 2 * G * mass * SUN_RADIUS / distance^3, divided by distance
\* three times, the factor 2 * G * SUN_RADIUS * 100 (in the units above)
\* spread over the three steps to keep every intermediate value in range.
\* With an inherited property for planet, period and mass are undefined and
\* every step is NaN.
calculatePlanetaryTidalForce(planetName, julianDay) ==
  LET planet == PlanetsAt(planetName)
  IN IF planet = undefined THEN Force(0)
     ELSE IF planet = inherited THEN NaN
     ELSE LET turn == (((julianDay * 100) % planet.period) * 200)
                        \div planet.period
              distance == (planet.semiMajorAxis
                             * (1000 + (50 * Cos1000(turn)) \div 1000))
                            \div 1000
              twoGR == (2 * GRAVITATIONAL_CONSTANT * SUN_RADIUS) \div 1000
          IN Force((((((planet.mass * 100) \div distance) * 1000)
                       \div distance) * twoGR) \div distance)

RECURSIVE TotalTo(_, _)
\* totalForce after the first k keys of the forEach.
TotalTo(forces, k) ==
  IF k = 0 THEN 0 ELSE TotalTo(forces, k - 1) + forces[PlanetKeys[k]]

RECURSIVE DominantMinTo(_, _)
\* Mutation of the reduce: < in place of >.
DominantMinTo(forces, k) ==
  IF k = 1 THEN PlanetKeys[1]
  ELSE LET max == DominantMinTo(forces, k - 1)
           planet == PlanetKeys[k]
       IN IF forces[planet] < forces[max] THEN planet ELSE max

RECURSIVE DominantTo(_, _)
\* Object.keys(forces).reduce((max, planet) => ...) over the first k keys.
DominantTo(forces, k) ==
  IF k = 1 THEN PlanetKeys[1]
  ELSE LET max == DominantTo(forces, k - 1)
           planet == PlanetKeys[k]
       IN IF forces[planet] > forces[max] THEN planet ELSE max

RECURSIVE Pow10(_)
Pow10(k) == IF k = 0 THEN 1 ELSE 10 * Pow10(k - 1)

\* m * 10^e <= 1, for m >= 0 (m is below 10^10).
DecAtMostOne(d) ==
  \/ d.m = 0
  \/ d.e >= 0 /\ d.m = 1 /\ d.e = 0
  \/ d.e < 0 /\ (-d.e > 9 \/ d.m <= Pow10(-d.e))

\* Mutation: Math.max in place of Math.min.
MaxWithOne(d) == IF DecAtMostOne(d) THEN Dec(1, 0) ELSE d

\* Math.min(d, 1)
MinWithOne(d) == IF DecAtMostOne(d) THEN d ELSE Dec(1, 0)

\* Math.min(totalForce / FTRT_REFERENCE_FORCE, 1)
NormalizedIndex(totalForce) ==
  MinWithOne(Dec(totalForce * ForceUnit.m,
                 ForceUnit.e - FTRT_REFERENCE_FORCE.e))

\* The record calculateFTRT returns, without its date string
\* (date.toISOString()), which julianDay stands for here.
calculateFTRT(d) ==
  LET julianDay == dateToJulianDay(d)
      forces == [planetName \in {PlanetKeys[k] : k \in 1..Len(PlanetKeys)} |->
                   calculatePlanetaryTidalForce(planetName, julianDay).n]
      totalForce == TotalTo(forces, Len(PlanetKeys))
      dominantPlanet == DominantTo(forces, Len(PlanetKeys))
  IN [kind |-> "snapshot",
      julianDay |-> julianDay,
      totalForce |-> totalForce,
      normalizedIndex |-> NormalizedIndex(totalForce),
      individualForces |-> forces,
      dominantPlanet |-> dominantPlanet,
      dominantForcePercentage |->
        IF totalForce = 0 THEN NaN
        ELSE Ratio(100 * forces[dominantPlanet], totalForce)]

\* A series element carries its normalizedIndex in hundredths; 0.85, 0.75
\* and the default threshold 0.7 are 85, 75 and 70.
ExtremeLevel == 85
HighLevel == 75
DefaultThreshold == 70

\* current > 0.85 ? 'extreme' : current > 0.75 ? 'high' : 'moderate'
Significance(current) ==
  IF current > ExtremeLevel THEN "extreme"
  ELSE IF current > HighLevel THEN "high" ELSE "moderate"

\* Mutation: a plateau counts as a peak (>= against the neighbours).
IsPeakOrPlateau(series, limit, i) ==
  LET current == series[i].normalizedIndex
      previous == series[i - 1].normalizedIndex
      next == series[i + 1].normalizedIndex
  IN current > limit /\ current >= previous /\ current >= next

\* current > threshold && current > previous && current > next, at the
\* 1-based position i.
IsPeak(series, limit, i) ==
  LET current == series[i].normalizedIndex
      previous == series[i - 1].normalizedIndex
      next == series[i + 1].normalizedIndex
  IN current > limit /\ current > previous /\ current > next

RECURSIVE PeaksFrom(_, _, _)
\* The for loop from the 1-based position i on: i runs while it is below
\* the last position.  The date string of an element is carried by its
\* julianDay, as in calculateFTRT.
PeaksFrom(series, limit, i) ==
  IF i >= Len(series) THEN <<>>
  ELSE (IF IsPeak(series, limit, i)
        THEN <<[julianDay |-> series[i].julianDay,
                index |-> series[i].normalizedIndex,
                dominantPlanet |-> series[i].dominantPlanet,
                type |-> "ftrt_peak",
                significance |-> Significance(series[i].normalizedIndex)]>>
        ELSE <<>>) \o PeaksFrom(series, limit, i + 1)

\* for (let i = 1; ...): the second element is the first one examined.
detectFTRTPeaks(series, limit) == PeaksFrom(series, limit, 2)

\* calculateFTRTTimeSeries.  A Date here also carries getHours(); minutes
\* and smaller parts are 0, and no clock change falls between the dates.

\* The Date comparison a <= b compares the two instants.
DateLess(a, b) ==
  <<a.year, a.month, a.day, a.hour>> # <<b.year, b.month, b.day, b.hour>>
  /\ \/ a.year < b.year
     \/ a.year = b.year /\ a.month < b.month
     \/ a.year = b.year /\ a.month = b.month /\ a.day < b.day
     \/ a.year = b.year /\ a.month = b.month /\ a.day = b.day
          /\ a.hour < b.hour

DateLessOrEqual(a, b) ==
  \/ a.year < b.year
  \/ a.year = b.year /\ a.month < b.month
  \/ a.year = b.year /\ a.month = b.month /\ a.day < b.day
  \/ a.year = b.year /\ a.month = b.month /\ a.day = b.day
       /\ a.hour <= b.hour

RECURSIVE setDate(_, _)
\* d.setDate(dayValue) for dayValue >= 1: a day past the end of the month
\* carries into the following months.
setDate(d, dayValue) ==
  IF dayValue <= DaysInMonth(d.year, d.month)
  THEN [d EXCEPT !.day = dayValue]
  ELSE setDate([d EXCEPT !.year = IF d.month = 11 THEN d.year + 1 ELSE d.year,
                         !.month = (d.month + 1) % 12],
               dayValue - DaysInMonth(d.year, d.month))

RECURSIVE SeriesLoop(_, _, _)
\* The while loop, from currentDate on.
SeriesLoop(from, end, step) ==
  IF DateLessOrEqual(from, end)
  THEN <<calculateFTRT(from)>>
         \o SeriesLoop(setDate(from, from.day + step), end, step)
  ELSE <<>>

\* stepDays = 30 when the argument is left out.
DefaultStepDays == 30

calculateFTRTTimeSeries(startDate, end, step) ==
  SeriesLoop(startDate, end, step)

\* dateHelpers: julianDayToDate.

\* new Date(year, monthIndex, day): local midnight of that day.  A year
\* from 0 to 99 stands for 1900 + year, and a day past the end of the month
\* carries over.
NewDate(year, monthIndex, day) ==
  setDate([year |-> IF year \in 0..99 THEN 1900 + year ELSE year,
           month |-> monthIndex, day |-> 1, hour |-> 0], day)

julianDayToDate(jd) ==
  LET a == jd + 32044
      b == (4 * a + 3) \div 146097
      c == a - (146097 * b) \div 4
      d == (4 * c + 3) \div 1461
      e == c - (1461 * d) \div 4
      m == (5 * e + 2) \div 153
      day == e - (153 * m + 2) \div 5 + 1
      month == m + 3 - 12 * (m \div 10)
      year == 100 * b + d - 4800 + m \div 10
  IN NewDate(year, month - 1, day)

\* calculateSynodicPeriod, with periods in whole days.
\* 1 / Math.abs(1 / p1.period - 1 / p2.period) is
\* period1 * period2 / |period1 - period2|: Infinity for equal periods (1 / 0)
\* and NaN when a period is undefined.
SynodicPeriod(p1, p2) ==
  IF p1 = inherited \/ p2 = inherited THEN NaN
  ELSE LET period1 == p1.period \div 100
           period2 == p2.period \div 100
       IN IF period1 = period2 THEN Inf(1)
          ELSE Ratio(period1 * period2, Abs(period1 - period2))

\* synodicPeriod / 365.25, kept as the quotient of the two: Infinity and NaN
\* divided by 365.25 are themselves.
SynodicPeriodYears(synodicPeriod) ==
  IF synodicPeriod.kind = "ratio"
  THEN [kind |-> "quotient", of |-> synodicPeriod, by |-> Ratio(36525, 100)]
  ELSE synodicPeriod

\* p.period
PeriodOf(p) == IF p = inherited THEN undefined ELSE Ratio(p.period, 100)

\* if (!p1 || !p2) return null: only undefined is falsy here.
calculateSynodicPeriod(name1, name2) ==
  LET p1 == PlanetsAt(name1)
      p2 == PlanetsAt(name2)
  IN IF p1 = undefined \/ p2 = undefined THEN null
     ELSE LET synodicPeriod == SynodicPeriod(p1, p2)
          IN [kind |-> "synodic",
              planet1 |-> name1,
              planet2 |-> name2,
              period1 |-> PeriodOf(p1),
              period2 |-> PeriodOf(p2),
              synodicPeriod |-> synodicPeriod,
              synodicPeriodYears |-> SynodicPeriodYears(synodicPeriod)]

\* statistics.  The numbers are those of the correlation functions.

\* The integer a number stands for, when it is one below 2^30 in size.
IsInteger(a) ==
  a.kind = "num" /\ (a.e >= 0 \/ a.m % Pow2(-a.e) = 0)
IntegerOf(a) == IF a.e >= 0 THEN a.m * Pow2(a.e) ELSE a.m \div Pow2(-a.e)

\* Math.floor(a) and Math.ceil(a): NaN and the infinities are themselves.
MathFloor(a0) ==
  LET a == ToNumber(a0)
  IN IF a.kind # "num" \/ a.e >= 0 THEN a
     ELSE FromInt(a.m \div Pow2(-a.e))

MathCeil(a0) ==
  LET a == ToNumber(a0)
  IN IF a.kind # "num" \/ a.e >= 0 THEN a
     ELSE FromInt(-((-a.m) \div Pow2(-a.e)))

\* Math.min(a, b) and Math.max(a, b): NaN when either is NaN.
MathMin(a0, b0) ==
  LET a == ToNumber(a0)
      b == ToNumber(b0)
  IN IF a.kind = "nan" \/ b.kind = "nan" THEN NaN
     ELSE IF Less(b, a) THEN b ELSE a

MathMax(a0, b0) ==
  LET a == ToNumber(a0)
      b == ToNumber(b0)
  IN IF a.kind = "nan" \/ b.kind = "nan" THEN NaN
     ELSE IF Less(a, b) THEN b ELSE a

RECURSIVE MinTo(_, _)
\* Math.min(...arr) over the first k elements: Infinity for none.
MinTo(arr, k) ==
  IF k = 0 THEN Inf(1) ELSE MathMin(MinTo(arr, k - 1), arr[k])

RECURSIVE MaxTo(_, _)
\* Math.max(...arr) over the first k elements: -Infinity for none.
MaxTo(arr, k) ==
  IF k = 0 THEN Inf(-1) ELSE MathMax(MaxTo(arr, k - 1), arr[k])

\* arr[index] for a number index: undefined unless the index is an integer
\* from 0 to arr.length - 1.
Element(arr, index) ==
  IF IsInteger(index) /\ IntegerOf(index) \in 0..(Len(arr) - 1)
  THEN arr[IntegerOf(index) + 1]
  ELSE undefined

\* [...data].sort((a, b) => a - b)
Sorted(arr) ==
  LET sorted == SortedTo(arr, Len(arr))
  IN [i \in 1..Len(arr) |-> sorted[i].val]

\* mean of statistics (the correlation functions have their own, above):
\* 0 for an empty array.
statisticsMean(arr) ==
  IF Len(arr) = 0 THEN Zero
  ELSE Div(SumTo(arr, Len(arr)), FromInt(Len(arr)))

median(arr) ==
  IF Len(arr) = 0 THEN Zero
  ELSE LET sorted == Sorted(arr)
           mid == Len(sorted) \div 2
       IN IF Len(sorted) % 2 = 0
          THEN Div(Add(sorted[mid], sorted[mid + 1]), FromInt(2))
          ELSE sorted[mid + 1]

RECURSIVE ModeLoop(_, _)
\* maxFreq and modeValue after the first k rounds of the forEach;
\* frequency[val] is then the number of elements equal to val so far.
ModeLoop(arr, k) ==
  IF k = 0 THEN [maxFreq |-> 0, modeValue |-> arr[1]]
  ELSE LET before == ModeLoop(arr, k - 1)
           frequency == Cardinality({j \in 1..k : arr[j] = arr[k]})
       IN IF frequency > before.maxFreq
          THEN [maxFreq |-> frequency, modeValue |-> arr[k]]
          ELSE before

\* Mutation: the guard for the empty array left out, so that modeValue
\* stays data[0], which is undefined.
modeUnguarded(arr) ==
  IF Len(arr) = 0 THEN undefined ELSE ModeLoop(arr, Len(arr)).modeValue

mode(arr) ==
  IF Len(arr) = 0 THEN Zero ELSE ModeLoop(arr, Len(arr)).modeValue

standardDeviation(arr, isSample) ==
  IF Len(arr) = 0 THEN Zero
  ELSE LET avg == statisticsMean(arr)
           squareDiffs == [i \in 1..Len(arr) |->
                             Mul(Sub(arr[i], avg), Sub(arr[i], avg))]
           divisor == IF isSample THEN Len(arr) - 1 ELSE Len(arr)
       IN Sqrt(Mul(statisticsMean(squareDiffs),
                   Div(FromInt(Len(arr)), FromInt(divisor))))

\* Math.pow(standardDeviation(data, sample), 2)
variance(arr, isSample) ==
  Mul(standardDeviation(arr, isSample), standardDeviation(arr, isSample))

\* range === 0 ? 0.5 for every element : (val - min) / range
normalize(arr) ==
  LET min == MinTo(arr, Len(arr))
      max == MaxTo(arr, Len(arr))
      range == Sub(max, min)
  IN IF range = Zero THEN [i \in 1..Len(arr) |-> Div(One, FromInt(2))]
     ELSE [i \in 1..Len(arr) |-> Div(Sub(arr[i], min), range)]

\* An integer literal such as 25, 75 or 100: a double holds it exactly, the
\* short significand may not, so it is kept exact until the operation it
\* is an operand of rounds the result (percentile / 100 is rounded once).
Literal(n) == Fin(n, 0)

\* Mutation: the copy is not sorted.
percentileUnsorted(arr, p) ==
  IF Len(arr) = 0 THEN Zero
  ELSE LET sorted == arr
           index == Mul(Div(p, Literal(100)), FromInt(Len(sorted) - 1))
           lower == MathFloor(index)
           upper == MathCeil(index)
           weight == Sub(index, lower)
       IN Add(Mul(Element(sorted, lower), Sub(One, weight)),
              Mul(Element(sorted, upper), weight))

percentile(arr, p) ==
  IF Len(arr) = 0 THEN Zero
  ELSE LET sorted == Sorted(arr)
           index == Mul(Div(p, Literal(100)), FromInt(Len(sorted) - 1))
           lower == MathFloor(index)
           upper == MathCeil(index)
           weight == Sub(index, lower)
       IN Add(Mul(Element(sorted, lower), Sub(One, weight)),
              Mul(Element(sorted, upper), weight))

quartiles(arr) ==
  [Q1 |-> percentile(arr, Literal(25)),
   Q2 |-> percentile(arr, Literal(50)),
   Q3 |-> percentile(arr, Literal(75))]

\* q.Q3 - q.Q1, with q worked out once.
iqr(arr) == CHOOSE d \in {Sub(q.Q3, q.Q1) : q \in {quartiles(arr)}} : TRUE

\* multiplier = 1.5 when the argument is left out.
DefaultMultiplier == Div(FromInt(3), FromInt(2))

\* Mutation: a value on a bound counts as outside it.
IsOnOrOutside(val, lowerBound, upperBound) ==
  ~Less(lowerBound, val) \/ ~Less(val, upperBound)

\* val < lowerBound || val > upperBound
IsOutside(val, lowerBound, upperBound) ==
  Less(val, lowerBound) \/ Less(upperBound, val)

RECURSIVE OutliersTo(_, _, _, _)
\* The map and the filter over the first k elements: the 0-based indices
\* of the values outside the bounds, in the order of the array.
OutliersTo(arr, lowerBound, upperBound, k) ==
  IF k = 0 THEN <<>>
  ELSE OutliersTo(arr, lowerBound, upperBound, k - 1)
         \o (IF IsOutside(arr[k], lowerBound, upperBound)
             THEN <<k - 1>> ELSE <<>>)

\* q, iqrValue, lowerBound and upperBound are each worked out once, as
\* the only element of a set.
detectOutliers(arr, factor) ==
  LET bounds ==
        {[lowerBound |-> Sub(q.Q1, Mul(factor, iqrValue)),
          upperBound |-> Add(q.Q3, Mul(factor, iqrValue))] :
           q \in {quartiles(arr)}, iqrValue \in {iqr(arr)}}
      found ==
        {OutliersTo(arr, b.lowerBound, b.upperBound, Len(arr)) :
           b \in bounds}
  IN CHOOSE indices \in found : TRUE

\* alpha = 0.3 when the argument is left out.
DefaultAlpha == Div(FromInt(3), FromInt(10))

RECURSIVE EmaTo(_, _, _)
\* ema after the loop has reached the 1-based position k; ema starts as
\* [data[0]], which is [undefined] for an empty array.
EmaTo(arr, alpha, k) ==
  IF k <= 1 THEN <<Element(arr, Zero)>>
  ELSE LET ema == EmaTo(arr, alpha, k - 1)
       IN Append(ema, Add(Mul(alpha, arr[k]),
                          Mul(Sub(One, alpha), ema[k - 1])))

exponentialMovingAverage(arr, alpha) == EmaTo(arr, alpha, Len(arr))

\* Math.min(Math.floor((val - min) / binWidth), bins - 1)
BinIndex(val, min, binWidth, binCount) ==
  MathMin(MathFloor(Div(Sub(val, min), binWidth)), FromInt(binCount - 1))

\* histogram[binIndex].count++ on a histogram of bins elements raises a
\* TypeError when histogram[binIndex] is undefined.  The count of a bin is
\* the length of its values.
histogram(arr, binCount) ==
  LET min == MinTo(arr, Len(arr))
      max == MaxTo(arr, Len(arr))
      binWidth == Div(Sub(max, min), FromInt(binCount))
      InBin(i) ==
        SelectSeq(arr, LAMBDA val :
                         BinIndex(val, min, binWidth, binCount) = FromInt(i))
  IN IF \E k \in 1..Len(arr) :
          Element([j \in 1..binCount |-> One],
                  BinIndex(arr[k], min, binWidth, binCount)) = undefined
     THEN Thrown
     ELSE [kind |-> "array",
           items |->
             [j \in 1..binCount |->
                [min |-> Add(min, Mul(FromInt(j - 1), binWidth)),
                 max |-> Add(min, Mul(FromInt(j), binWidth)),
                 count |-> Len(InBin(j - 1)),
                 values |-> InBin(j - 1)]]]

\* The input arrays after a call.  The arrays of a call are kept by the
\* name of the variable that holds them; spread, map, slice, concat and
\* filter make a new array, sort works on the array it is called on.

\* A new array with these elements, held by the variable name.
NewArray(arrays, name, elements) ==
  [n \in DOMAIN arrays \cup {name} |->
     IF n = name THEN elements ELSE arrays[n]]

\* arrays[name].sort((a, b) => a - b): in place.
SortArray(arrays, name) == [arrays EXCEPT ![name] = Sorted(arrays[name])]

\* Mutation: the array is sorted where it is, and sorted is that array.
SortedInPlace(arrays, name) ==
  LET after == SortArray(arrays, name)
  IN NewArray(after, "sorted", after[name])

\* const sorted = [...arr].sort(...), and arr.map(...).sort(...) of getRanks:
\* the new array is the one sorted.
SortedCopy(arrays, name) ==
  SortArray(NewArray(arrays, "sorted", arrays[name]), "sorted")

\* median and percentile return before the sort for an empty array.
medianArrays(arrays) ==
  IF Len(arrays.data) = 0 THEN arrays ELSE SortedCopy(arrays, "data")

percentileArrays(arrays) ==
  IF Len(arrays.data) = 0 THEN arrays ELSE SortedCopy(arrays, "data")

RECURSIVE PercentileCalls(_, _)
\* The arrays after n calls of percentile, one after the other.
PercentileCalls(arrays, n) ==
  IF n = 0 THEN arrays
  ELSE percentileArrays(PercentileCalls(arrays, n - 1))

\* Three calls of percentile.
quartilesArrays(arrays) == PercentileCalls(arrays, 3)

\* quartiles(data), iqr(data), which is quartiles(data) again, and a map and
\* a filter that make new arrays.
detectOutliersArrays(arrays) ==
  LET after == PercentileCalls(arrays, 6)
  IN NewArray(after, "indices", <<>>)

\* getRanks(x) and getRanks(y), after the check of the lengths.
spearmanArrays(arrays) ==
  IF Len(arrays.x) # Len(arrays.y) \/ Len(arrays.x) = 0 THEN arrays
  ELSE SortedCopy(SortedCopy(arrays, "x"), "y")

RECURSIVE CrossArraysFrom(_, _, _)
\* The rounds of the loop of crossCorrelation from lag on: shiftedY is
\* [...y], or a concat of a slice of y and a new array filled with null.
CrossArraysFrom(arrays, lag, top) ==
  IF lag > top THEN arrays
  ELSE CrossArraysFrom(NewArray(arrays, "shiftedY", ShiftedY(arrays.y, lag)),
                       lag + 1, top)

crossCorrelationArrays(arrays, top) == CrossArraysFrom(arrays, -top, top)

\* The dashboard (CosmicEvolutionExplorer): loadRealData.

\* solarJson.slice(-100) and Array.from({ length: 100 }, ...).
LastPoints == 100
FallbackLength == 100

\* A record of the response, with its 'time-tag', and the records made of
\* it.  Of a record the date is kept; sunspots, flux, kpIndex and
\* fieldStrength are numbers that are parsed from the response or drawn
\* with Math.random().
JsonItem(tag) == [kind |-> "item", tag |-> <<tag>>]
SolarRecord(item) == [kind |-> "solar", date |-> item.tag]
GeomagRecord(item) == [kind |-> "geomag", date |-> item.date]

\* Mutation: the whole response is mapped.
AllItems(items) == items

\* items.slice(-100): the last 100 items, or all when there are fewer.
LastItems(items) ==
  SubSeq(items, Max(1, Len(items) - LastPoints + 1), Len(items))

\* processedSolar.  A response that is not an array has no slice or no map,
\* and the callback of map reads item['time-tag'], which throws on null.
ProcessedSolar(json) ==
  IF json.kind # "array" THEN Thrown
  ELSE LET last == LastItems(json.items)
       IN IF \E i \in 1..Len(last) : last[i] = null THEN Thrown
          ELSE [kind |-> "array",
                items |-> [i \in 1..Len(last) |-> SolarRecord(last[i])]]

\* geomagSimulated: a record for each record of processedSolar.
GeomagSimulated(processedSolar) ==
  [i \in 1..Len(processedSolar) |-> GeomagRecord(processedSolar[i])]

\* processedSolar[processedSolar.length - 1].
LastRecord(processedSolar) ==
  IF Len(processedSolar) = 0 THEN undefined
  ELSE processedSolar[Len(processedSolar)]

\* evolutionData, by the ages of its events.
EvolutionData == <<541, 485, 419, 252, 201, 66>>

\* generateFallbackSolarData and generateFallbackGeomagData: 100 records,
\* twelve to a date.
generateFallbackSolarData ==
  [i \in 1..FallbackLength |->
     [kind |-> "solar", date |-> <<2015, ((i - 1) \div 12) + 1>>]]

generateFallbackGeomagData ==
  [i \in 1..FallbackLength |->
     [kind |-> "geomag", date |-> <<2015, ((i - 1) \div 12) + 1>>]]

\* The loops over a range of dates, a round at a time: createDateRange and
\* calculateFTRTTimeSeries.  A Date is held as its time value in days from
\* the epoch; a Date whose time value is NaN is invalid.

\* A time value is at most 8.64e15 ms, 100,000,000 days, from the epoch:
\* beyond that a Date is invalid.
MaxDay == 100000000

DateOfDay(day) == [kind |-> "date", day |-> day]
InvalidDate == [kind |-> "invalid"]

\* a < b is false when either is invalid.
DayLess(a, b) == a.kind = "date" /\ b.kind = "date" /\ a.day < b.day

\* a <= b, the condition of the loops.
DayLessOrEqual(a, b) ==
  a.kind = "date" /\ b.kind = "date" /\ a.day <= b.day

\* d.setDate(d.getDate() + step).
AddDays(d, step) ==
  IF d.kind # "date" THEN InvalidDate
  ELSE IF d.day + step > MaxDay \/ d.day + step < -MaxDay THEN InvalidDate
       ELSE DateOfDay(d.day + step)

\* solarAPI: detectSolarCycles.  A record of solarData is held as its
\* sunspots and its date, and the arrays are 1-based: solarData[i] of the
\* code is solarData[i + 1] here.

\* { value: previous, date: solarData[i - 1].date }, in the round that
\* reads current from the record at position at.
PreviousPoint(series, at) ==
  [value |-> series[at - 1].sunspots, date |-> series[at - 1].date]

\* Mutation: the point is taken from the current record.
CurrentPoint(series, at) ==
  [value |-> series[at].sunspots, date |-> series[at].date]

\* The point recorded as max when the series begins to fall.
MaxPoint(series, at) == PreviousPoint(series, at)

\* The point recorded as min when the series begins to rise.
MinPoint(series, at) == PreviousPoint(series, at)

\* cycles, currentCycle and isAscending before the loop.
ScanStart ==
  [cycles |-> <<>>,
   currentCycle |-> [min |-> null, max |-> null, start |-> null,
                     end |-> null],
   isAscending |-> TRUE]

\* The round of the loop that reads current from the record at position at.
ScanRound(scan, series, at) ==
  LET current == series[at].sunspots
      previous == series[at - 1].sunspots
  IN IF scan.isAscending /\ current < previous
     THEN [scan EXCEPT !.currentCycle =
                         [scan.currentCycle EXCEPT
                            !.max = MaxPoint(series, at)],
                       !.isAscending = FALSE]
     ELSE IF ~scan.isAscending /\ current > previous
     THEN LET closed == [scan.currentCycle EXCEPT
                           !.min = MinPoint(series, at)]
          IN IF closed.max # null
             THEN [cycles |-> Append(scan.cycles, closed),
                   currentCycle |-> [min |-> closed.min, max |-> null],
                   isAscending |-> TRUE]
             ELSE [scan EXCEPT !.currentCycle = closed,
                               !.isAscending = TRUE]
     ELSE scan

RECURSIVE ScanTo(_, _)
\* The state of the scan after the round that reads the record at position
\* at; no round has run when at is 1 or less.
ScanTo(series, at) ==
  IF at <= 1 THEN ScanStart
  ELSE ScanRound(ScanTo(series, at - 1), series, at)

detectSolarCycles(series) == ScanTo(series, Len(series)).cycles

\* geomagneticAPI: detectGeomagneticReversals.  A point of geomagData is
\* held as its fieldStrength, in nT, and its date.

\* const threshold = 5000, the polarity level 35000 and the change of a
\* major reversal.
ChangeThreshold == 5000
PolarityLevel == 35000
MajorChange == 10000

\* Math.abs of a difference of two whole numbers.
AbsDifference(a, b) == IF a >= b THEN a - b ELSE b - a

\* Mutation: a change of the threshold itself counts.
ChangeAtLeast(fieldChange, limit) == fieldChange >= limit

\* fieldChange > threshold.
ChangeAbove(fieldChange, limit) == fieldChange > limit

\* calculateAgeFromDate(point.date): the years from that date to now, in
\* millions.
calculateAgeFromDate(dateStr) == [kind |-> "age", of |-> dateStr]

\* The callback of forEach for the point at position at, on reversals and
\* previousPolarity.
ReversalRound(scan, points, at) ==
  IF at = 1 THEN scan
  ELSE LET point == points[at]
           fieldChange ==
             AbsDifference(point.fieldStrength, points[at - 1].fieldStrength)
           currentPolarity ==
             IF point.fieldStrength > PolarityLevel THEN "normal"
             ELSE "reversed"
       IN IF ChangeAbove(fieldChange, ChangeThreshold)
               /\ currentPolarity # scan.previousPolarity
          THEN [reversals |->
                  Append(scan.reversals,
                         [date |-> point.date,
                          age |-> calculateAgeFromDate(point.date),
                          fromPolarity |-> scan.previousPolarity,
                          toPolarity |-> currentPolarity,
                          fieldStrength |-> point.fieldStrength,
                          significance |->
                            IF fieldChange > MajorChange THEN "major"
                            ELSE "minor"]),
                previousPolarity |-> currentPolarity]
          ELSE scan

RECURSIVE ReversalsTo(_, _)
\* reversals and previousPolarity after the callback has run for the first
\* at points.
ReversalsTo(points, at) ==
  IF at = 0 THEN [reversals |-> <<>>, previousPolarity |-> "normal"]
  ELSE ReversalRound(ReversalsTo(points, at - 1), points, at)

detectGeomagneticReversals(points) ==
  ReversalsTo(points, Len(points)).reversals

\* correlations: detectPeaks.  The indices are those of the code, from 0:
\* data[i] of the code is data[i + 1] here.

\* threshold = 0 and minDistance = 1 when the arguments are left out.
DefaultPeakThreshold == Zero
DefaultMinDistance == 1

\* Mutation: a peak at exactly minDistance is left out.
FartherThan(i, last, distance) == i - last > distance

\* i - peaks[peaks.length - 1] >= minDistance.
FarEnough(i, last, distance) == i - last >= distance

RECURSIVE PeaksTo(_, _, _, _)
\* peaks after the rounds of the loop up to index i.
PeaksTo(arr, level, distance, i) ==
  IF i < 1 THEN <<>>
  ELSE LET peaks == PeaksTo(arr, level, distance, i - 1)
       IN IF /\ Less(arr[i], arr[i + 1])
             /\ Less(arr[i + 2], arr[i + 1])
             /\ Less(level, arr[i + 1])
             /\ \/ Len(peaks) = 0
                \/ FarEnough(i, peaks[Len(peaks)], distance)
          THEN Append(peaks, i)
          ELSE peaks

\* The loop runs for i from 1 to data.length - 2.
detectPeaks(arr, level, distance) ==
  PeaksTo(arr, level, distance, Len(arr) - 2)

\* evolutionData: groupEventsByPeriod, and dateHelpers: getGeologicalPeriod.
\* Ages are held in tenths of a million years, so that 2.6 Ma is 26.

\* The keys of periods, in the order they are written, and the ranges.
PeriodKeys ==
  <<"quaternary", "neogene", "paleogene", "cretaceous", "jurassic",
    "triassic", "permian", "carboniferous", "devonian", "silurian",
    "ordovician", "cambrian">>

PeriodBounds ==
  <<0, 26, 230, 660, 1450, 2010, 2520, 2990, 3590, 4190, 4440, 4850, 5410>>

PeriodRange(k) == <<PeriodBounds[k], PeriodBounds[k + 1]>>

\* Mutation: the end of a range belongs to it.
InClosedRange(age, range) == age >= range[1] /\ age <= range[2]

\* age >= period.range[0] && age < period.range[1].
InRange(age, range) == age >= range[1] /\ age < range[2]

RECURSIVE EventsInRange(_, _, _)
\* period.events after the callback has run for the first n events.
EventsInRange(catalog, range, n) ==
  IF n = 0 THEN <<>>
  ELSE LET before == EventsInRange(catalog, range, n - 1)
       IN IF InRange(catalog[n].ageMillionYears, range)
          THEN Append(before, catalog[n])
          ELSE before

\* The periods returned for the catalog getAllEvents gave.
groupEventsByPeriod(catalog) ==
  [k \in 1..Len(PeriodKeys) |->
     [key |-> PeriodKeys[k],
      range |-> PeriodRange(k),
      events |-> EventsInRange(catalog, PeriodRange(k), Len(catalog))]]

\* periods.find(...) || null: the first period the age is in.
getGeologicalPeriod(age) ==
  IF \E k \in 1..Len(PeriodKeys) : InRange(age, PeriodRange(k))
  THEN LET k == CHOOSE j \in 1..Len(PeriodKeys) :
                  /\ InRange(age, PeriodRange(j))
                  /\ \A i \in 1..(j - 1) : ~InRange(age, PeriodRange(i))
       IN [key |-> PeriodKeys[k], start |-> PeriodRange(k)[1],
           end |-> PeriodRange(k)[2]]
  ELSE null

\* getFallbackEvents: the events by id and age.
getFallbackEvents ==
  <<[id |-> "cambrian_explosion", ageMillionYears |-> 5410],
    [id |-> "permian_extinction", ageMillionYears |-> 2520],
    [id |-> "kt_extinction", ageMillionYears |-> 660]>>

-----------------------------------------------------------------------------
(* The specifications *)

NoDate == [year |-> 0, month |-> 0, day |-> 0]

\* The arguments a specification does not use.
NoCorrelationArgs ==
  x = <<>> /\ y = <<>> /\ maxLag = 0 /\ records = <<>> /\ minDistance = 1
NoCalculatorArgs ==
  /\ date = NoDate
  /\ endDate = NoDate
  /\ stepDays = 0
  /\ ftrtSeries = <<>>
  /\ threshold = 0
  /\ planet1Name = ""
  /\ planet2Name = ""
NoStatisticsArgs ==
  /\ data = <<>>
  /\ pct = Zero
  /\ sample = TRUE
  /\ bins = 0
  /\ multiplier = Zero

\* The dashboard as useState leaves it, before its effect has run.
Constructed ==
  /\ loading = TRUE
  /\ solarData = <<>>
  /\ geomagData = <<>>
  /\ evolutionEvents = <<>>
  /\ currentSolarActivity = null
  /\ pc = "mount"
  /\ solarJson = NoValue

\* No catalog is read.
NoCatalogArgs == events = <<>> /\ ageInMa = 0

\* No loop over a range of dates has begun.
NotLooping == currentDate = NoValue /\ dates = <<>>

\* The stateful parts a specification of a pure function does not run.
NoProcessState == Constructed /\ NotLooping /\ NoCatalogArgs

\* The elements of the arrays the correlation functions are checked on.
Values == {FromInt(0), FromInt(1), FromInt(MaxVal)}

\* The largest power of two and the smallest normal number.
Huge == Fin(Pow2(Precision - 1), EHi)
Tiny == Fin(Pow2(Precision - 1), ELo)

\* The lists findOptimalLag is checked on hold these coefficients:
\* -1, -1/2, 0, 1/2 and 1.
Coefficients ==
  {Neg(One), Div(Neg(One), FromInt(2)), Zero, Div(One, FromInt(2)), One}

\* The dates calculateFTRT is checked on: every day of these years.
FirstYear == 2024
NumYears == 12
Dates ==
  {d \in [year : FirstYear..(FirstYear + NumYears - 1), month : 0..11,
          day : 1..31] : d.day <= DaysInMonth(d.year, d.month)}

\* Spec: the correlation functions that take two arrays and return one
\* result.
Init ==
  /\ x \in SeqsUpTo(MaxLen, Values)
  /\ y \in SeqsUpTo(MaxLen, Values)
  /\ maxLag = 0
  /\ minDistance = 1
  /\ records = <<>>
  /\ NoCalculatorArgs
  /\ NoStatisticsArgs
  /\ NoProcessState
  /\ op = "init"
  /\ ret = NoValue

CallPearsonCorrelation ==
  /\ op = "init"
  /\ op' = "pearsonCorrelation"
  /\ ret' = pearsonCorrelation(x, y)
  /\ UNCHANGED <<correlationArgs, calculatorArgs, statisticsArgs, processState>>

CallSpearmanCorrelation ==
  /\ op = "init"
  /\ op' = "spearmanCorrelation"
  /\ ret' = spearmanCorrelation(x, y)
  /\ x' = spearmanArrays([x |-> x, y |-> y]).x
  /\ y' = spearmanArrays([x |-> x, y |-> y]).y
  /\ UNCHANGED <<maxLag, records, minDistance, calculatorArgs,
                 statisticsArgs, processState>>

CallRSquared ==
  /\ op = "init"
  /\ op' = "rSquared"
  /\ ret' = rSquared(x, y)
  /\ UNCHANGED <<correlationArgs, calculatorArgs, statisticsArgs, processState>>

CallLinearRegression ==
  /\ op = "init"
  /\ op' = "linearRegression"
  /\ ret' = linearRegression(x, y)
  /\ UNCHANGED <<correlationArgs, calculatorArgs, statisticsArgs, processState>>

CallCrossCorrelation ==
  /\ op = "init"
  /\ \E top \in 0..MaxLagBound :
       /\ maxLag' = top
       /\ ret' = crossCorrelation(x, y, top)
       /\ x' = crossCorrelationArrays([x |-> x, y |-> y], top).x
       /\ y' = crossCorrelationArrays([x |-> x, y |-> y], top).y
  /\ op' = "crossCorrelation"
  /\ UNCHANGED <<records, minDistance, calculatorArgs, statisticsArgs,
                 processState>>

Next ==
  \/ CallPearsonCorrelation
  \/ CallSpearmanCorrelation
  \/ CallRSquared
  \/ CallLinearRegression

Spec == Init /\ [][Next]_vars

\* SpecCross: crossCorrelation on the same arrays, for every maxLag.
NextCross == CallCrossCorrelation

SpecCross == Init /\ [][NextCross]_vars

\* SpecSelf: pearsonCorrelation of a series with itself, over the whole
\* range of magnitudes.
InitSelf ==
  /\ x \in SeqsUpTo(MaxLen, Values \cup {Huge, Tiny})
  /\ y = x
  /\ maxLag = 0
  /\ minDistance = 1
  /\ records = <<>>
  /\ NoCalculatorArgs
  /\ NoStatisticsArgs
  /\ NoProcessState
  /\ op = "init"
  /\ ret = NoValue

NextSelf == CallPearsonCorrelation

SpecSelf == InitSelf /\ [][NextSelf]_vars

\* SpecLag: findOptimalLag on a list of records.
InitLag ==
  /\ x = <<>>
  /\ y = <<>>
  /\ maxLag = 0
  /\ minDistance = 1
  /\ \E cs \in SeqsUpTo(MaxRecs, Coefficients) :
       records = [i \in 1..Len(cs) |->
                    [lag |-> i - 1, correlation |-> cs[i],
                     dataPoints |-> Len(cs)]]
  /\ NoCalculatorArgs
  /\ NoStatisticsArgs
  /\ NoProcessState
  /\ op = "init"
  /\ ret = NoValue

CallFindOptimalLag ==
  /\ op = "init"
  /\ op' = "findOptimalLag"
  /\ ret' = findOptimalLag(records)
  /\ UNCHANGED <<correlationArgs, calculatorArgs, statisticsArgs, processState>>

NextLag == CallFindOptimalLag

SpecLag == InitLag /\ [][NextLag]_vars

\* SpecFTRT: calculateFTRT on a date.
InitFTRT ==
  /\ NoCorrelationArgs
  /\ date \in Dates
  /\ endDate = NoDate
  /\ stepDays = 0
  /\ ftrtSeries = <<>>
  /\ threshold = 0
  /\ planet1Name = ""
  /\ planet2Name = ""
  /\ NoStatisticsArgs
  /\ NoProcessState
  /\ op = "init"
  /\ ret = NoValue

CallCalculateFTRT ==
  /\ op = "init"
  /\ op' = "calculateFTRT"
  /\ ret' = calculateFTRT(date)
  /\ UNCHANGED <<correlationArgs, calculatorArgs, statisticsArgs, processState>>

NextFTRT == CallCalculateFTRT

SpecFTRT == InitFTRT /\ [][NextFTRT]_vars

\* SpecPeaks: detectFTRTPeaks on series of up to MaxSeries snapshots, a
\* day apart, and on the six-element series 0.1, 0.3, 0.6, 0.9, 0.5, 0.2.
MaxSeries == 4
IndexValues == {60, DefaultThreshold, 80, 90}
ExampleIndices == <<10, 30, 60, 90, 50, 20>>
FirstJulianDay == dateToJulianDay([year |-> FirstYear, month |-> 0, day |-> 1])

SeriesOf(indices) ==
  [i \in 1..Len(indices) |->
     [julianDay |-> FirstJulianDay + i - 1,
      normalizedIndex |-> indices[i],
      dominantPlanet |-> IF indices[i] > HighLevel THEN "jupiter" ELSE "venus"]]

InitPeaks ==
  /\ NoCorrelationArgs
  /\ date = NoDate
  /\ endDate = NoDate
  /\ stepDays = 0
  /\ ftrtSeries \in {SeriesOf(indices) :
                       indices \in SeqsUpTo(MaxSeries, IndexValues)
                                     \cup {ExampleIndices}}
  /\ threshold \in {DefaultThreshold, HighLevel}
  /\ planet1Name = ""
  /\ planet2Name = ""
  /\ NoStatisticsArgs
  /\ NoProcessState
  /\ op = "init"
  /\ ret = NoValue

CallDetectFTRTPeaks ==
  /\ op = "init"
  /\ op' = "detectFTRTPeaks"
  /\ ret' = [kind |-> "peaks", peaks |-> detectFTRTPeaks(ftrtSeries, threshold)]
  /\ UNCHANGED <<correlationArgs, calculatorArgs, statisticsArgs, processState>>

NextPeaks == CallDetectFTRTPeaks

SpecPeaks == InitPeaks /\ [][NextPeaks]_vars

\* SpecSeries: calculateFTRTTimeSeries from each of the last LastDays days
\* of February and of December of FirstYear, at midnight or noon, to an end
\* up to MaxSpan days later or two days earlier, in steps of 1..MaxStep
\* days or the default.
MaxSpan == 33
MaxStep == 3
LastDays == 10
Hours == {0, 12}

StartDates ==
  {d \in [year : {FirstYear}, month : {1, 11}, day : 1..31, hour : Hours] :
     /\ d.day <= DaysInMonth(d.year, d.month)
     /\ d.day > DaysInMonth(d.year, d.month) - LastDays}

\* The calendar day before d, at the same hour.
DayBefore(d) ==
  IF d.day > 1 THEN [d EXCEPT !.day = d.day - 1]
  ELSE IF d.month > 0
       THEN [d EXCEPT !.month = d.month - 1,
                      !.day = DaysInMonth(d.year, d.month - 1)]
       ELSE [d EXCEPT !.year = d.year - 1, !.month = 11, !.day = 31]

\* The ends of the ranges that start at d.
EndDates(d) ==
  {[setDate(d, d.day + n) EXCEPT !.hour = h] : n \in 0..MaxSpan, h \in Hours}
    \cup {[DayBefore(d) EXCEPT !.hour = h] : h \in Hours}
    \cup {[DayBefore(DayBefore(d)) EXCEPT !.hour = h] : h \in Hours}

InitSeries ==
  /\ NoCorrelationArgs
  /\ date \in StartDates
  /\ endDate \in EndDates(date)
  /\ stepDays \in 1..MaxStep \cup {DefaultStepDays}
  /\ ftrtSeries = <<>>
  /\ threshold = 0
  /\ planet1Name = ""
  /\ planet2Name = ""
  /\ NoStatisticsArgs
  /\ NoProcessState
  /\ op = "init"
  /\ ret = NoValue

CallCalculateFTRTTimeSeries ==
  /\ op = "init"
  /\ op' = "calculateFTRTTimeSeries"
  /\ ret' = [kind |-> "series",
             series |-> calculateFTRTTimeSeries(date, endDate, stepDays)]
  /\ UNCHANGED <<correlationArgs, calculatorArgs, statisticsArgs, processState>>

NextSeries == CallCalculateFTRTTimeSeries

SpecSeries == InitSeries /\ [][NextSeries]_vars

\* SpecJulian: the Julian day of a date, and the date of its Julian day,
\* for every day of the years FirstYear and FirstYear + 1, of the century
\* years 1900, 2000 and 2100 and of the year 50, at midnight and at noon.
JulianYears == {50, 1900, 2000, 2100} \cup {FirstYear, FirstYear + 1}

JulianDates ==
  {d \in [year : JulianYears, month : 0..11, day : 1..31, hour : Hours] :
     d.day <= DaysInMonth(d.year, d.month)}

InitJulian ==
  /\ NoCorrelationArgs
  /\ date \in JulianDates
  /\ endDate = NoDate
  /\ stepDays = 0
  /\ ftrtSeries = <<>>
  /\ threshold = 0
  /\ planet1Name = ""
  /\ planet2Name = ""
  /\ NoStatisticsArgs
  /\ NoProcessState
  /\ op = "init"
  /\ ret = NoValue

CallDateToJulianDay ==
  /\ op = "init"
  /\ op' = "dateToJulianDay"
  /\ ret' = [kind |-> "julianDay", jdn |-> dateToJulianDay(date)]
  /\ UNCHANGED <<correlationArgs, calculatorArgs, statisticsArgs, processState>>

\* julianDayToDate(dateToJulianDay(date))
CallJulianDayToDate ==
  /\ op = "init"
  /\ op' = "julianDayToDate"
  /\ ret' = julianDayToDate(dateToJulianDay(date))
  /\ UNCHANGED <<correlationArgs, calculatorArgs, statisticsArgs, processState>>

NextJulian == CallDateToJulianDay \/ CallJulianDayToDate

SpecJulian == InitJulian /\ [][NextJulian]_vars

\* SpecLookup: the two functions that look a body up by name, on the names
\* of the table, on names no object has and on names every object inherits.
BodyNames ==
  {PlanetKeys[k] : k \in 1..Len(PlanetKeys)}
    \cup {"pluto", "Earth", "constructor", "toString", "__proto__"}

LookupDates ==
  {[year |-> FirstYear, month |-> month, day |-> 1] : month \in {0, 6}}

InitLookup ==
  /\ NoCorrelationArgs
  /\ date \in LookupDates
  /\ endDate = NoDate
  /\ stepDays = 0
  /\ ftrtSeries = <<>>
  /\ threshold = 0
  /\ planet1Name \in BodyNames
  /\ planet2Name \in BodyNames
  /\ NoStatisticsArgs
  /\ NoProcessState
  /\ op = "init"
  /\ ret = NoValue

CallCalculatePlanetaryTidalForce ==
  /\ op = "init"
  /\ op' = "calculatePlanetaryTidalForce"
  /\ ret' = calculatePlanetaryTidalForce(planet1Name, dateToJulianDay(date))
  /\ UNCHANGED <<correlationArgs, calculatorArgs, statisticsArgs, processState>>

CallCalculateSynodicPeriod ==
  /\ op = "init"
  /\ op' = "calculateSynodicPeriod"
  /\ ret' = calculateSynodicPeriod(planet1Name, planet2Name)
  /\ UNCHANGED <<correlationArgs, calculatorArgs, statisticsArgs, processState>>

NextLookup == CallCalculatePlanetaryTidalForce \/ CallCalculateSynodicPeriod

SpecLookup == InitLookup /\ [][NextLookup]_vars

\* SpecStatistics: the statistics functions on arrays of up to MaxLen
\* elements.  The bins of a histogram number 1..MaxBins, every one of which
\* the short significand represents exactly (the default, 10, it does not).
MaxBins == 3
\* The percentile argument: inside the range 0..100, at its ends, and
\* outside it on either side.
Percentiles ==
  {Literal(-50), Literal(0), Literal(50), Literal(100), Literal(200)}

\* The elements of the arrays: those of the correlation functions, a
\* negative number and the largest power of two.
StatisticsValues == Values \cup {Neg(One), Huge}

\* The value a function returned: a number, or an array of items.
ArrayOf(items) == [kind |-> "array", items |-> items]

InitStatistics ==
  /\ NoCorrelationArgs
  /\ NoCalculatorArgs
  /\ data \in SeqsUpTo(MaxLen, StatisticsValues)
  /\ pct \in Percentiles
  /\ sample \in BOOLEAN
  /\ bins \in 1..MaxBins
  /\ multiplier = Zero
  /\ NoProcessState
  /\ op = "init"
  /\ ret = NoValue

CallMean ==
  /\ op = "init"
  /\ op' = "mean"
  /\ ret' = statisticsMean(data)
  /\ UNCHANGED <<correlationArgs, calculatorArgs, statisticsArgs, processState>>

CallMedian ==
  /\ op = "init"
  /\ op' = "median"
  /\ ret' = median(data)
  /\ data' = medianArrays([data |-> data]).data
  /\ UNCHANGED <<correlationArgs, calculatorArgs, pct, sample, bins,
               multiplier, processState>>

CallMode ==
  /\ op = "init"
  /\ op' = "mode"
  /\ ret' = mode(data)
  /\ UNCHANGED <<correlationArgs, calculatorArgs, statisticsArgs, processState>>

CallStandardDeviation ==
  /\ op = "init"
  /\ op' = "standardDeviation"
  /\ ret' = standardDeviation(data, sample)
  /\ UNCHANGED <<correlationArgs, calculatorArgs, statisticsArgs, processState>>

CallVariance ==
  /\ op = "init"
  /\ op' = "variance"
  /\ ret' = variance(data, sample)
  /\ UNCHANGED <<correlationArgs, calculatorArgs, statisticsArgs, processState>>

CallNormalize ==
  /\ op = "init"
  /\ op' = "normalize"
  /\ ret' = ArrayOf(normalize(data))
  /\ UNCHANGED <<correlationArgs, calculatorArgs, statisticsArgs, processState>>

CallPercentile ==
  /\ op = "init"
  /\ op' = "percentile"
  /\ ret' = percentile(data, pct)
  /\ data' = percentileArrays([data |-> data]).data
  /\ UNCHANGED <<correlationArgs, calculatorArgs, pct, sample, bins,
               multiplier, processState>>

CallExponentialMovingAverage ==
  /\ op = "init"
  /\ op' = "exponentialMovingAverage"
  /\ ret' = ArrayOf(exponentialMovingAverage(data, DefaultAlpha))
  /\ UNCHANGED <<correlationArgs, calculatorArgs, statisticsArgs, processState>>

CallHistogram ==
  /\ op = "init"
  /\ op' = "histogram"
  /\ ret' = histogram(data, bins)
  /\ UNCHANGED <<correlationArgs, calculatorArgs, statisticsArgs, processState>>

NextStatistics ==
  \/ CallMean
  \/ CallMedian
  \/ CallMode
  \/ CallStandardDeviation
  \/ CallVariance
  \/ CallNormalize
  \/ CallPercentile
  \/ CallExponentialMovingAverage
  \/ CallHistogram

SpecStatistics == InitStatistics /\ [][NextStatistics]_vars

\* SpecOutliers: quartiles, iqr and detectOutliers on the arrays of
\* SpecStatistics and on [1, 2, 3, 4, 100], with the default multiplier,
\* with 0 and with 3.
ExampleData ==
  <<FromInt(1), FromInt(2), FromInt(3), FromInt(4), FromInt(100)>>
Multipliers == {Zero, DefaultMultiplier, FromInt(3)}

InitOutliers ==
  /\ NoCorrelationArgs
  /\ NoCalculatorArgs
  /\ data \in SeqsUpTo(MaxLen, StatisticsValues) \cup {ExampleData}
  /\ pct = Zero
  /\ sample = TRUE
  /\ bins = 0
  /\ multiplier \in Multipliers
  /\ NoProcessState
  /\ op = "init"
  /\ ret = NoValue

CallQuartiles ==
  /\ op = "init"
  /\ op' = "quartiles"
  /\ ret' = [kind |-> "quartiles", q |-> quartiles(data)]
  /\ data' = quartilesArrays([data |-> data]).data
  /\ UNCHANGED <<correlationArgs, calculatorArgs, pct, sample, bins,
               multiplier, processState>>

CallIqr ==
  /\ op = "init"
  /\ op' = "iqr"
  /\ ret' = iqr(data)
  /\ UNCHANGED <<correlationArgs, calculatorArgs, statisticsArgs, processState>>

CallDetectOutliers ==
  /\ op = "init"
  /\ op' = "detectOutliers"
  /\ ret' = ArrayOf(detectOutliers(data, multiplier))
  /\ data' = detectOutliersArrays([data |-> data]).data
  /\ UNCHANGED <<correlationArgs, calculatorArgs, pct, sample, bins,
               multiplier, processState>>

NextOutliers == CallQuartiles \/ CallIqr \/ CallDetectOutliers

SpecOutliers == InitOutliers /\ [][NextOutliers]_vars

\* SpecHistogram: histogram on the arrays of SpecStatistics and on arrays
\* that hold the smallest positive number (Number.MIN_VALUE) as well.
MinValue == Fin(1, ELo)
HistogramValues == StatisticsValues \cup {MinValue}

InitHistogram ==
  /\ NoCorrelationArgs
  /\ NoCalculatorArgs
  /\ data \in SeqsUpTo(MaxLen, HistogramValues)
  /\ pct = Zero
  /\ sample = TRUE
  /\ bins \in 1..MaxBins
  /\ multiplier = Zero
  /\ NoProcessState
  /\ op = "init"
  /\ ret = NoValue

NextHistogram == CallHistogram

SpecHistogram == InitHistogram /\ [][NextHistogram]_vars

\* SpecFrame: the functions that sort or shift, each on arrays in every
\* order.
FrameValues == {Zero, One}

InitFrame ==
  /\ \/ /\ x \in SeqsUpTo(MaxLen, FrameValues)
        /\ y \in SeqsUpTo(MaxLen, FrameValues)
        /\ data = <<>>
     \/ /\ x = <<>>
        /\ y = <<>>
        /\ data \in SeqsUpTo(MaxLen, Values)
  /\ maxLag = 0
  /\ minDistance = 1
  /\ records = <<>>
  /\ NoCalculatorArgs
  /\ pct = Literal(50)
  /\ sample = TRUE
  /\ bins = 0
  /\ multiplier = DefaultMultiplier
  /\ NoProcessState
  /\ op = "init"
  /\ ret = NoValue

NextFrame ==
  \/ CallMedian
  \/ CallPercentile
  \/ CallQuartiles
  \/ CallDetectOutliers
  \/ CallSpearmanCorrelation
  \/ CallCrossCorrelation

SpecFrame == InitFrame /\ [][NextFrame]_vars

\* SpecDashboard: the dashboard's effect calls loadRealData once; the call
\* runs up to each await in one step, and from the last one to its end.
MaxJson == 102

\* What a request comes to when it fails.
Rejected(at) == [kind |-> "rejected", at |-> at]

\* What response.json() resolves to: an array of up to MaxJson items, all
\* of them records but perhaps the first or the last, or a value that is
\* not an array.
JsonArrays ==
  UNION {{ArrayOf([i \in 1..n |-> IF i = k THEN null ELSE JsonItem(i)]) :
            k \in {0, 1, n}} : n \in 0..MaxJson}

JsonValues ==
  JsonArrays \cup {[kind |-> "object"], [kind |-> "string"], null}

InitDashboard ==
  /\ NoCorrelationArgs
  /\ NoCalculatorArgs
  /\ NoStatisticsArgs
  /\ Constructed
  /\ NotLooping
  /\ NoCatalogArgs
  /\ op = "init"
  /\ ret = NoValue

\* catch and finally.
Caught ==
  /\ solarData' = generateFallbackSolarData
  /\ geomagData' = generateFallbackGeomagData
  /\ loading' = FALSE
  /\ pc' = "settled"
  /\ ret' = undefined
  /\ UNCHANGED <<evolutionEvents, currentSolarActivity>>

\* The effect calls loadRealData, which runs up to await fetch(...).
LoadRealData ==
  /\ pc = "mount"
  /\ loading' = TRUE
  /\ pc' = "fetch"
  /\ op' = "loadRealData"
  /\ UNCHANGED <<correlationArgs, calculatorArgs, statisticsArgs, loopState,
                 catalogArgs,
                 solarData, geomagData, evolutionEvents, currentSolarActivity,
                 solarJson, ret>>

\* fetch resolves: on to await solarResponse.json().
FetchResolves ==
  /\ pc = "fetch"
  /\ pc' = "json"
  /\ UNCHANGED <<correlationArgs, calculatorArgs, statisticsArgs, loopState,
                 catalogArgs,
                 loading, solarData, geomagData, evolutionEvents,
                 currentSolarActivity, solarJson, op, ret>>

FetchRejects ==
  /\ pc = "fetch"
  /\ solarJson' = Rejected("fetch")
  /\ Caught
  /\ UNCHANGED <<correlationArgs, calculatorArgs, statisticsArgs, loopState,
                 catalogArgs,
                 op>>

JsonRejects ==
  /\ pc = "json"
  /\ solarJson' = Rejected("json")
  /\ Caught
  /\ UNCHANGED <<correlationArgs, calculatorArgs, statisticsArgs, loopState,
                 catalogArgs,
                 op>>

\* json() resolves: the rest of the try block, or catch from where it
\* throws, and finally.
JsonResolves ==
  /\ pc = "json"
  /\ \E json \in JsonValues :
       /\ solarJson' = json
       /\ LET processedSolar == ProcessedSolar(json)
          IN IF processedSolar = Thrown THEN Caught
             ELSE /\ solarData' = processedSolar.items
                  /\ currentSolarActivity' = LastRecord(processedSolar.items)
                  /\ geomagData' = GeomagSimulated(processedSolar.items)
                  /\ evolutionEvents' = EvolutionData
                  /\ loading' = FALSE
                  /\ pc' = "settled"
                  /\ ret' = undefined
  /\ UNCHANGED <<correlationArgs, calculatorArgs, statisticsArgs, loopState,
                 catalogArgs,
                 op>>

NextDashboard ==
  \/ LoadRealData
  \/ FetchResolves
  \/ FetchRejects
  \/ JsonRejects
  \/ JsonResolves

SpecDashboard == InitDashboard /\ [][NextDashboard]_vars

\* SpecRange: createDateRange and calculateFTRTTimeSeries, a round of the
\* while loop at a time.  The array is followed up to MaxDates entries.
MaxSpanDays == 3
MaxDates == MaxSpanDays + 2
FarStep == MaxDay \div 2
RangeSteps == {-FarStep, -1, 0, 1, 2, FarStep}

InitRange ==
  /\ NoCorrelationArgs
  /\ date \in {DateOfDay(d) : d \in 0..MaxSpanDays}
  /\ endDate \in {DateOfDay(d) : d \in 0..MaxSpanDays}
  /\ stepDays \in RangeSteps
  /\ ftrtSeries = <<>>
  /\ threshold = 0
  /\ planet1Name = ""
  /\ planet2Name = ""
  /\ NoStatisticsArgs
  /\ Constructed
  /\ NotLooping
  /\ NoCatalogArgs
  /\ op = "init"
  /\ ret = NoValue

\* const dates = []; let currentDate = new Date(startDate).
CallCreateDateRange ==
  /\ op = "init"
  /\ op' = "createDateRange"
  /\ currentDate' = date
  /\ dates' = <<>>
  /\ UNCHANGED <<correlationArgs, calculatorArgs, statisticsArgs,
                 dashboardState, catalogArgs, ret>>

\* const series = []; const currentDate = new Date(startDate).
BeginFTRTTimeSeries ==
  /\ op = "init"
  /\ op' = "calculateFTRTTimeSeries"
  /\ currentDate' = date
  /\ dates' = <<>>
  /\ UNCHANGED <<correlationArgs, calculatorArgs, statisticsArgs,
                 dashboardState, catalogArgs, ret>>

\* A round of the loop: an entry for currentDate is pushed and currentDate
\* is moved by stepDays.
LoopRound ==
  /\ op \in {"createDateRange", "calculateFTRTTimeSeries"}
  /\ ret = NoValue
  /\ DayLessOrEqual(currentDate, endDate)
  /\ Len(dates) < MaxDates
  /\ dates' = Append(dates, currentDate)
  /\ currentDate' = AddDays(currentDate, stepDays)
  /\ UNCHANGED <<correlationArgs, calculatorArgs, statisticsArgs,
                 dashboardState, catalogArgs, op, ret>>

\* The condition of the loop is false: the array is returned.
LoopExit ==
  /\ op \in {"createDateRange", "calculateFTRTTimeSeries"}
  /\ ret = NoValue
  /\ ~DayLessOrEqual(currentDate, endDate)
  /\ ret' = ArrayOf(dates)
  /\ UNCHANGED <<correlationArgs, calculatorArgs, statisticsArgs,
                 processState, op>>

NextRange ==
  \/ CallCreateDateRange
  \/ BeginFTRTTimeSeries
  \/ LoopRound
  \/ LoopExit

SpecRange == InitRange /\ [][NextRange]_vars

\* FairSpecRange: a call that has begun goes on running.
FairSpecRange ==
  SpecRange /\ WF_vars(LoopRound) /\ WF_vars(LoopExit)

\* SpecCycles: detectSolarCycles on every series of up to MaxSolar records
\* with these sunspot numbers, dated by their position.
MaxSolar == 6
SunspotNumbers == 0..2

SolarSeries ==
  UNION {{[i \in 1..n |-> [sunspots |-> s[i], date |-> i]] :
            s \in [1..n -> SunspotNumbers]} : n \in 0..MaxSolar}

InitCycles ==
  /\ NoCorrelationArgs
  /\ NoCalculatorArgs
  /\ NoStatisticsArgs
  /\ loading = TRUE
  /\ solarData \in SolarSeries
  /\ geomagData = <<>>
  /\ evolutionEvents = <<>>
  /\ currentSolarActivity = null
  /\ pc = "mount"
  /\ solarJson = NoValue
  /\ NotLooping
  /\ NoCatalogArgs
  /\ op = "init"
  /\ ret = NoValue

CallDetectSolarCycles ==
  /\ op = "init"
  /\ op' = "detectSolarCycles"
  /\ ret' = ArrayOf(detectSolarCycles(solarData))
  /\ UNCHANGED <<correlationArgs, calculatorArgs, statisticsArgs,
                 processState>>

NextCycles == CallDetectSolarCycles

SpecCycles == InitCycles /\ [][NextCycles]_vars

\* SpecReversals: detectGeomagneticReversals on every series of up to
\* MaxGeomag points with these field strengths, dated by their position.
MaxGeomag == 4
FieldStrengths == {29000, 31000, 35000, 36000, 41000}

GeomagSeries ==
  UNION {{[i \in 1..n |-> [fieldStrength |-> s[i], date |-> i]] :
            s \in [1..n -> FieldStrengths]} : n \in 0..MaxGeomag}

InitReversals ==
  /\ NoCorrelationArgs
  /\ NoCalculatorArgs
  /\ NoStatisticsArgs
  /\ loading = TRUE
  /\ solarData = <<>>
  /\ geomagData \in GeomagSeries
  /\ evolutionEvents = <<>>
  /\ currentSolarActivity = null
  /\ pc = "mount"
  /\ solarJson = NoValue
  /\ NotLooping
  /\ NoCatalogArgs
  /\ op = "init"
  /\ ret = NoValue

CallDetectGeomagneticReversals ==
  /\ op = "init"
  /\ op' = "detectGeomagneticReversals"
  /\ ret' = ArrayOf(detectGeomagneticReversals(geomagData))
  /\ UNCHANGED <<correlationArgs, calculatorArgs, statisticsArgs,
                 processState>>

NextReversals == CallDetectGeomagneticReversals

SpecReversals == InitReversals /\ [][NextReversals]_vars

\* SpecDetectPeaks: detectPeaks on every array of up to MaxPeaksLen
\* elements, with the threshold 0 or 1 and every minDistance up to
\* MaxDistance.
MaxPeaksLen == 7
MaxDistance == 3
PeakValues == {Zero, One, FromInt(2)}

InitDetectPeaks ==
  /\ x \in SeqsUpTo(MaxPeaksLen, PeakValues)
  /\ y = <<>>
  /\ maxLag = 0
  /\ records = <<>>
  /\ minDistance \in 0..MaxDistance
  /\ date = NoDate
  /\ endDate = NoDate
  /\ stepDays = 0
  /\ ftrtSeries = <<>>
  /\ threshold \in {DefaultPeakThreshold, One}
  /\ planet1Name = ""
  /\ planet2Name = ""
  /\ NoStatisticsArgs
  /\ NoProcessState
  /\ op = "init"
  /\ ret = NoValue

CallDetectPeaks ==
  /\ op = "init"
  /\ op' = "detectPeaks"
  /\ ret' = ArrayOf(detectPeaks(x, threshold, minDistance))
  /\ UNCHANGED <<correlationArgs, calculatorArgs, statisticsArgs,
                 processState>>

NextDetectPeaks == CallDetectPeaks

SpecDetectPeaks == InitDetectPeaks /\ [][NextDetectPeaks]_vars

\* SpecPeriods: groupEventsByPeriod on the fallback catalog, on every
\* catalog of one event whose age is on a bound of a period or a tenth to
\* either side of one, and on every catalog of up to MaxEvents events whose
\* ages are on bounds; and getGeologicalPeriod for the age of an event of
\* the catalog.
MaxEvents == 2

BoundAges == {PeriodBounds[k] : k \in 1..Len(PeriodBounds)}

CatalogAges == UNION {{b - 1, b, b + 1} : b \in BoundAges}

CatalogOf(ages) ==
  [i \in 1..Len(ages) |-> [id |-> ToString(i), ageMillionYears |-> ages[i]]]

Catalogs ==
  {getFallbackEvents}
    \cup {CatalogOf(<<a>>) : a \in CatalogAges}
    \cup {CatalogOf(ages) : ages \in SeqsUpTo(MaxEvents, BoundAges)}

InitPeriods ==
  /\ NoCorrelationArgs
  /\ NoCalculatorArgs
  /\ NoStatisticsArgs
  /\ Constructed
  /\ NotLooping
  /\ events \in Catalogs
  /\ ageInMa = 0
  /\ op = "init"
  /\ ret = NoValue

CallGroupEventsByPeriod ==
  /\ op = "init"
  /\ op' = "groupEventsByPeriod"
  /\ ret' = [kind |-> "periods", periods |-> groupEventsByPeriod(events)]
  /\ UNCHANGED <<correlationArgs, calculatorArgs, statisticsArgs,
                 processState>>

CallGetGeologicalPeriod ==
  /\ op = "init"
  /\ \E i \in 1..Len(events) :
       /\ ageInMa' = events[i].ageMillionYears
       /\ ret' = getGeologicalPeriod(events[i].ageMillionYears)
  /\ op' = "getGeologicalPeriod"
  /\ UNCHANGED <<correlationArgs, calculatorArgs, statisticsArgs,
                 dashboardState, loopState, events>>

NextPeriods ==
  \/ CallGroupEventsByPeriod
  \/ CallGetGeologicalPeriod

SpecPeriods == InitPeriods /\ [][NextPeriods]_vars

-----------------------------------------------------------------------------
(* Properties *)

AllEqual(arr) == \A i, j \in 1..Len(arr) : arr[i] = arr[j]
SameShape == Len(x) = Len(y) /\ Len(x) > 0
PlanetSet == {PlanetKeys[k] : k \in 1..Len(PlanetKeys)}
PlanetIndex(name) == CHOOSE k \in 1..Len(PlanetKeys) : PlanetKeys[k] = name

RECURSIVE SetSum(_, _)
SetSum(f, S) ==
  IF S = {} THEN 0
  ELSE LET e == CHOOSE e \in S : TRUE IN f[e] + SetSum(f, S \ {e})

\* C1: for every valid calendar date, the snapshot's normalizedIndex is
\* min(totalForce / FTRT_REFERENCE_FORCE, 1), totalForce being the sum of the
\* per-planet forces, and 0 <= normalizedIndex <= 1.
C1_NormalizedIndexIsClampedRatio ==
  op = "calculateFTRT" =>
    LET total == SetSum(ret.individualForces, PlanetSet)
        \* total (in 1e-14 N) / 1e15 N
        quotient == Dec(total, -29)
        index == ret.normalizedIndex
    IN /\ DOMAIN ret.individualForces = PlanetSet
       /\ ret.totalForce = total
       /\ index = IF DecAtMostOne(quotient) THEN quotient ELSE Dec(1, 0)
       /\ index.m >= 0
       /\ DecAtMostOne(index)

C1_Witness ==
  /\ op = "calculateFTRT"
  /\ ret.totalForce > 0
  /\ ret.normalizedIndex.m > 0
  /\ ret.normalizedIndex # Dec(1, 0)

\* C2: pearsonCorrelation, spearmanCorrelation, linearRegression and rSquared
\* throw exactly when their two arrays differ in length or are both empty.
C2_ShapeErrors ==
  op \in {"pearsonCorrelation", "spearmanCorrelation", "linearRegression",
          "rSquared"} =>
    (ret = Thrown <=> (Len(x) # Len(y) \/ (Len(x) = 0 /\ Len(y) = 0)))

C2_Witness ==
  /\ op = "linearRegression"
  /\ Len(x) > 0
  /\ Len(y) > Len(x)
  /\ ret = Thrown

\* C3: for non-empty arrays of equal length, pearsonCorrelation returns
\* exactly 0 whenever all elements of x are equal or all elements of y are
\* equal, length 1 included.
C3_ZeroVarianceGivesZero ==
  (op = "pearsonCorrelation" /\ SameShape /\ (AllEqual(x) \/ AllEqual(y))) =>
    ret = Zero

\* C4: for non-empty arrays of equal length, pearsonCorrelation returns a
\* number r with -1 <= r <= 1.
C4_CoefficientInRange ==
  (op = "pearsonCorrelation" /\ SameShape) =>
    /\ ret.kind = "num"
    /\ ~Less(One, ret)
    /\ ~Less(ret, Neg(One))

\* C5: pearsonCorrelation(x, x) is 1 for every finite x with two distinct
\* values.
C5_SelfCorrelationIsOne ==
  (op = "pearsonCorrelation" /\ x = y /\ ~AllEqual(x)) => ret = One

\* The pairs (x[i], y[i - lag]) over the i for which i - lag is an index of
\* y, for arrays of one length, as two arrays.
PairedX(lag) == SubSeq(x, Max(1, 1 + lag), Min(Len(x), Len(x) + lag))
PairedY(lag) == SubSeq(y, Max(1, 1 + lag) - lag, Min(Len(x), Len(x) + lag) - lag)

\* C6: for x and y of one length n, crossCorrelation returns, in ascending
\* lag order, one record for each lag with |lag| <= maxLag and |lag| < n and
\* no other; the record counts n - |lag| pairs and holds the Pearson
\* correlation of the pairs (x[i], y[i - lag]).
C6_OneRecordPerOverlappingLag ==
  (op = "crossCorrelation" /\ Len(x) = Len(y)) =>
    LET n == Len(x)
        lags == {lag \in (-maxLag)..maxLag : Abs(lag) < n}
        list == ret.list
    IN /\ ret.kind = "list"
       /\ Len(list) = Cardinality(lags)
       /\ \A k \in 1..Len(list) :
            /\ list[k].lag \in lags
            /\ k > 1 => list[k].lag > list[k - 1].lag
            /\ list[k].dataPoints = n - Abs(list[k].lag)
            /\ list[k].correlation =
                 pearsonCorrelation(PairedX(list[k].lag), PairedY(list[k].lag))

C6_Witness ==
  /\ op = "crossCorrelation"
  /\ Len(x) = Len(y)
  /\ Len(x) > 1
  /\ maxLag >= Len(x)
  /\ Len(ret.list) = 2 * Len(x) - 1
  /\ \E k \in 1..Len(ret.list) :
       /\ ret.list[k].lag > 0
       /\ ret.list[k].correlation.kind = "num"
       /\ ret.list[k].correlation # Zero

\* C7: crossCorrelation throws when x and y differ in length or are empty.
C7_CrossCorrelationFailsFast ==
  (op = "crossCorrelation" /\ (Len(x) # Len(y) \/ Len(x) = 0)) =>
    ret = Thrown

\* |a| <= |b| for two coefficients.
AbsAtMost(a, b) == ~Less(MathAbs(b), MathAbs(a))

\* C8: for a non-empty list, findOptimalLag returns the first record of the
\* list whose |correlation| is maximal over the list.
C8_FirstRecordOfMaximalAbs ==
  (op = "findOptimalLag" /\ Len(records) > 0) =>
    /\ ret.kind = "record"
    /\ \E k \in 1..Len(records) :
         /\ ret.record = records[k]
         /\ \A j \in 1..Len(records) :
              AbsAtMost(records[j].correlation, records[k].correlation)
         /\ \A j \in 1..(k - 1) :
              ~AbsAtMost(records[k].correlation, records[j].correlation)

C8_Witness ==
  /\ op = "findOptimalLag"
  /\ ret.kind = "record"
  /\ \E k \in 2..Len(records) :
       /\ ret.record = records[k]
       /\ \E j \in (k + 1)..Len(records) :
            /\ AbsAtMost(records[k].correlation, records[j].correlation)
            /\ records[j].correlation # records[k].correlation

\* The rank of element i: one more than the number of elements that are
\* smaller, or equal and at an earlier index.
RankOf(arr, i) ==
  1 + Cardinality({j \in 1..Len(arr) :
                     Less(arr[j], arr[i]) \/ (arr[j] = arr[i] /\ j < i)})

\* C9: spearmanCorrelation(x, y) is pearsonCorrelation of the ranks, which are
\* the distinct ranks 1..n in ascending value order, equal values ranked in
\* the order of their indices.
C9_SpearmanIsPearsonOfRanks ==
  (op = "spearmanCorrelation" /\ SameShape) =>
    LET rankX == [i \in 1..Len(x) |-> RankOf(x, i)]
        rankY == [i \in 1..Len(y) |-> RankOf(y, i)]
    IN /\ getRanks(x) = [i \in 1..Len(x) |-> FromInt(rankX[i])]
       /\ getRanks(y) = [i \in 1..Len(y) |-> FromInt(rankY[i])]
       /\ {rankX[i] : i \in 1..Len(x)} = 1..Len(x)
       /\ {rankY[i] : i \in 1..Len(y)} = 1..Len(y)
       /\ ret = pearsonCorrelation([i \in 1..Len(x) |-> FromInt(rankX[i])],
                                   [i \in 1..Len(y) |-> FromInt(rankY[i])])

C9_Witness ==
  /\ op = "spearmanCorrelation"
  /\ SameShape
  /\ \E i, j \in 1..Len(x) : i < j /\ x[i] = x[j]
  /\ ~AllEqual(x)
  /\ ret.kind = "num"
  /\ ret # Zero
  /\ ret # pearsonCorrelation(x, y)

\* C10: dominantPlanet is the first key, in table order, whose force is the
\* maximum of the individual forces, and dominantForcePercentage is
\* 100 * individualForces[dominantPlanet] / totalForce, in (0, 100].
C10_DominantPlanet ==
  op = "calculateFTRT" =>
    LET forces == ret.individualForces
        dominant == ret.dominantPlanet
        percentage == ret.dominantForcePercentage
    IN /\ dominant \in DOMAIN forces
       /\ \A p \in DOMAIN forces : forces[p] <= forces[dominant]
       /\ \A k \in 1..(PlanetIndex(dominant) - 1) :
            forces[PlanetKeys[k]] < forces[dominant]
       /\ percentage.kind = "ratio"
       /\ percentage.num = 100 * forces[dominant]
       /\ percentage.den = ret.totalForce
       /\ percentage.den > 0
       /\ 0 < percentage.num
       /\ percentage.num <= 100 * percentage.den

C10_Witness ==
  /\ op = "calculateFTRT"
  /\ ret.dominantPlanet = "jupiter"
  /\ ret.dominantForcePercentage.num < 100 * ret.dominantForcePercentage.den
  /\ ret.individualForces["venus"] > ret.individualForces["mercury"]

\* C11: for every date, the dominantPlanet of the snapshot calculateFTRT
\* returns is defined and is one of jupiter, saturn, venus and earth.
C11_DominantPlanetIsExpected ==
  op = "calculateFTRT" =>
    /\ ret.dominantPlanet \in DOMAIN PLANETS
    /\ ret.dominantPlanet \in {"jupiter", "saturn", "venus", "earth"}

\* A date on which Venus, not Jupiter, exerts the largest force.
C11_Witness ==
  /\ op = "calculateFTRT"
  /\ ret.dominantPlanet = "venus"
  /\ ret.individualForces["venus"] > ret.individualForces["jupiter"]

\* The normalizedIndex of the element at the 1-based position i.
IndexAt(i) == ftrtSeries[i].normalizedIndex

\* The interior positions that are strict local maxima above the threshold.
PeakPositions ==
  {i \in 2..(Len(ftrtSeries) - 1) :
     /\ IndexAt(i) > IndexAt(i - 1)
     /\ IndexAt(i) > IndexAt(i + 1)
     /\ IndexAt(i) > threshold}

RECURSIVE DaysBeforeMonth(_, _)
\* The days of the months of the year before the month (0-based).
DaysBeforeMonth(year, month) ==
  IF month = 0 THEN 0
  ELSE DaysBeforeMonth(year, month - 1) + DaysInMonth(year, month - 1)

RECURSIVE DaysBeforeYear(_)
\* The days from 1 January of FirstYear - 1 to 1 January of the year.
DaysBeforeYear(year) ==
  IF year < FirstYear THEN 0
  ELSE DaysBeforeYear(year - 1) + DaysBeforeMonth(year - 1, 11) + 31

\* The calendar days counted by hand, in hours with the hour of the day.
HourNumber(d) ==
  24 * (DaysBeforeYear(d.year) + DaysBeforeMonth(d.year, d.month) + d.day)
    + d.hour

\* C13: for start <= end and stepDays >= 1, calculateFTRTTimeSeries returns
\* one snapshot for each date start + k * stepDays days that is <= end, in
\* increasing date order and nothing else: floor(D / stepDays) + 1
\* snapshots, D the days from start to end, the last one at end exactly when
\* D is a multiple of stepDays; when start > end the result is empty.
C13_OneSnapshotPerStep ==
  op = "calculateFTRTTimeSeries" =>
    LET series == ret.series
        hours == HourNumber(endDate) - HourNumber(date)
        n == Len(series)
    IN IF hours < 0 THEN series = <<>>
       ELSE /\ n = hours \div (24 * stepDays) + 1
            /\ \A k \in 1..n :
                 series[k].julianDay
                   = dateToJulianDay(date) + (k - 1) * stepDays
            /\ (series[n].julianDay = dateToJulianDay(endDate)
                  /\ date.hour = endDate.hour)
                 <=> hours % (24 * stepDays) = 0

\* A range over a month end and a year end whose last step lands on end.
C13_Witness ==
  /\ op = "calculateFTRTTimeSeries"
  /\ stepDays = MaxStep
  /\ date.year < endDate.year
  /\ Len(ret.series) > 2
  /\ ret.series[Len(ret.series)].julianDay = dateToJulianDay(endDate)

\* C14: for every calendar date d at day resolution (no time of day),
\* julianDayToDate(dateToJulianDay(d)) is the same calendar date d.
C14_RoundTrip ==
  (op = "julianDayToDate" /\ date.hour = 0) =>
    /\ ret.year = date.year
    /\ ret.month = date.month
    /\ ret.day = date.day

\* The calendar day after d, at the same hour.
NextDay(d) == setDate(d, d.day + 1)

\* C15: dateToJulianDay is a continuous integer day count: the day after d
\* has the Julian day of d plus 1, across month ends, year ends, 29
\* February and the non-leap century years, so the result is strictly
\* increasing in the date; it does not depend on the time of day.
C15_ContinuousDayCount ==
  op = "dateToJulianDay" =>
    /\ dateToJulianDay(NextDay(date)) = ret.jdn + 1
    /\ \A year \in JulianYears :
         LET newYear == [year |-> year, month |-> 0, day |-> 1, hour |-> 0]
         IN /\ date.year < year => ret.jdn < dateToJulianDay(newYear)
            /\ date.year >= year => ret.jdn >= dateToJulianDay(newYear)
    /\ \A h \in Hours : dateToJulianDay([date EXCEPT !.hour = h]) = ret.jdn

\* 28 February 1900, at noon: the next day is 1 March.
C15_Witness ==
  /\ op = "dateToJulianDay"
  /\ date = [year |-> 1900, month |-> 1, day |-> 28, hour |-> 12]
  /\ NextDay(date).month = 2
  /\ ret.jdn = 2415079

\* The name is no key of the planetary constants table.
Absent(name) == name \notin PlanetSet

\* C16: a lookup of a body name absent from the planetary constants table
\* never raises: calculatePlanetaryTidalForce returns 0 for an absent name,
\* and calculateSynodicPeriod returns null exactly when at least one of its
\* two names is absent (for two present names, equal or not, a record).
C16_AbsentNames ==
  /\ op = "calculatePlanetaryTidalForce" =>
       /\ ret # Thrown
       /\ Absent(planet1Name) => ret = Force(0)
  /\ op = "calculateSynodicPeriod" =>
       /\ ret # Thrown
       /\ ret = null <=> (Absent(planet1Name) \/ Absent(planet2Name))

\* The statistics functions of the model.
StatisticsOps ==
  {"mean", "median", "mode", "standardDeviation", "variance", "normalize",
   "percentile", "exponentialMovingAverage", "histogram"}

\* C17: for every array of finite numbers, the empty array, a one-element
\* array and an array of equal elements included, each statistics function
\* returns a value without raising an exception.
C17_StatisticsNeverThrow ==
  op \in StatisticsOps => ret # Thrown

\* C18: for every non-empty array whose elements are all equal,
\* standardDeviation(data, true) and standardDeviation(data, false) both
\* return exactly 0.
C18_ConstantArrayHasNoDeviation ==
  (op = "standardDeviation" /\ Len(data) >= 1 /\ AllEqual(data)) =>
    ret = Zero

\* C19: mean, median, mode and standardDeviation (sample and population)
\* return 0 when given an empty array.
C19_EmptyArrayGivesZero ==
  (op \in {"mean", "median", "mode", "standardDeviation"} /\ data = <<>>) =>
    ret = Zero

\* The four functions, and both modes of standardDeviation, on the empty
\* array.
C19_Witness ==
  /\ data = <<>>
  /\ \/ op \in {"mean", "median", "mode"}
     \/ op = "standardDeviation" /\ ~sample
  /\ ret = Zero

\* The smallest and the largest element of a non-empty array.
Smallest(arr) ==
  CHOOSE v \in {arr[i] : i \in 1..Len(arr)} :
    \A i \in 1..Len(arr) : ~Less(arr[i], v)
Largest(arr) ==
  CHOOSE v \in {arr[i] : i \in 1..Len(arr)} :
    \A i \in 1..Len(arr) : ~Less(v, arr[i])

\* C20: for every non-empty array a, percentile(a, 0) is the minimum element
\* of a and percentile(a, 100) is the maximum element of a.
C20_PercentileEnds ==
  (op = "percentile" /\ Len(data) >= 1) =>
    /\ pct = Literal(0) => ret = Smallest(data)
    /\ pct = Literal(100) => ret = Largest(data)

\* percentile(a, 100) of an array whose largest element comes first and is
\* not its only value.
C20_Witness ==
  /\ op = "percentile"
  /\ pct = Literal(100)
  /\ Len(data) = MaxLen
  /\ data[1] = Largest(data)
  /\ data[MaxLen] = Smallest(data)
  /\ Smallest(data) # Largest(data)
  /\ ret = data[1]

\* C21: percentile(data, p) called with p < 0 or p > 100 fails with an
\* error instead of returning a value.
C21_PercentileOutOfRangeFails ==
  (op = "percentile" /\ (Less(pct, Literal(0)) \/ Less(Literal(100), pct))) =>
    ret = Thrown

\* The 0-based indices of the values below Q1 - k * IQR or above
\* Q3 + k * IQR, for Q1 = percentile(data, 25), Q3 = percentile(data, 75),
\* IQR = Q3 - Q1 and k the multiplier.
OutlierIndices ==
  LET Q1 == percentile(data, Literal(25))
      Q3 == percentile(data, Literal(75))
      IQR == Sub(Q3, Q1)
  IN {i \in 0..(Len(data) - 1) :
        \/ Less(data[i + 1], Sub(Q1, Mul(multiplier, IQR)))
        \/ Less(Add(Q3, Mul(multiplier, IQR)), data[i + 1])}

\* C22: detectOutliers(data, k) returns, in ascending order, exactly the
\* indices i with data[i] < Q1 - k * IQR or data[i] > Q3 + k * IQR; in
\* particular detectOutliers([1, 2, 3, 4, 100], 1.5) returns only the index
\* of 100.
C22_OutliersAreBeyondTheFences ==
  op = "detectOutliers" =>
    LET indices == ret.items
    IN /\ {indices[k] : k \in 1..Len(indices)} = OutlierIndices
       /\ \A k \in 2..Len(indices) : indices[k - 1] < indices[k]
       /\ (data = ExampleData /\ multiplier = DefaultMultiplier)
            => indices = <<4>>

\* An array with an outlier on either side of values that are none.
C22_Witness ==
  /\ op = "detectOutliers"
  /\ Len(ret.items) = 2
  /\ Len(data) > 2
  /\ \E i, j \in 1..Len(data) :
       /\ ret.items = <<i - 1, j - 1>>
       /\ Less(data[i], percentile(data, Literal(25)))
       /\ Less(percentile(data, Literal(75)), data[j])

RECURSIVE CountsTo(_, _)
\* The sum of the counts of the first k bins.
CountsTo(items, k) ==
  IF k = 0 THEN 0 ELSE CountsTo(items, k - 1) + items[k].count

\* The histogram has bins bins, the first starting at min, each ending
\* where the next starts, the last ending at max, bin i being
\* [min + i * width, min + (i + 1) * width] for width = (max - min) / bins.
HistogramSpans(items, min, max) ==
  LET width == Div(Sub(max, min), FromInt(bins))
  IN /\ Len(items) = bins
     /\ items[1].min = min
     /\ items[bins].max = max
     /\ \A j \in 1..bins :
          /\ items[j].min = Add(min, Mul(FromInt(j - 1), width))
          /\ items[j].max = Add(min, Mul(FromInt(j), width))
          /\ j < bins => items[j].max = items[j + 1].min

\* Every value is counted in exactly one bin, the one with index
\* min(floor((v - min) / width), bins - 1).
HistogramCounts(items, min, max) ==
  LET width == Div(Sub(max, min), FromInt(bins))
      IndexOf(v) ==
        MathMin(MathFloor(Div(Sub(v, min), width)), FromInt(bins - 1))
  IN /\ \A k \in 1..Len(data) :
          \E j \in 1..bins :
            /\ IndexOf(data[k]) = FromInt(j - 1)
            /\ items[j].count
                 = Cardinality({i \in 1..Len(data) :
                                  IndexOf(data[i]) = FromInt(j - 1)})
            /\ \E i \in 1..Len(items[j].values) :
                 items[j].values[i] = data[k]
            /\ \A other \in (1..bins) \ {j} :
                 \A i \in 1..Len(items[other].values) :
                   items[other].values[i] # data[k]
     /\ CountsTo(items, bins) = Len(data)
     /\ \A k \in 1..Len(data) :
          data[k] = max =>
            \E i \in 1..Len(items[bins].values) :
              items[bins].values[i] = max

\* C23: for non-empty data with min < max and bins >= 1, histogram returns
\* exactly bins bins of equal width (max - min) / bins that together span
\* [min, max], and every value is counted in exactly one bin, the one with
\* index min(floor((v - min) / width), bins - 1); the counts sum to the
\* length of data and every value equal to max is counted in the last bin.
C23_HistogramBins ==
  (op = "histogram" /\ Len(data) >= 1 /\ bins >= 1
     /\ Less(Smallest(data), Largest(data))) =>
    /\ ret # Thrown
    /\ HistogramSpans(ret.items, Smallest(data), Largest(data))
    /\ HistogramCounts(ret.items, Smallest(data), Largest(data))

\* C24: median, percentile, quartiles, detectOutliers, spearmanCorrelation
\* and crossCorrelation leave every input array with the same elements in
\* the same order.
C24_InputsAreNotModified ==
  [][x' = x /\ y' = y /\ data' = data]_vars

\* An array that was not in order has been through a function that sorts.
C24_Witness ==
  /\ op \in {"median", "percentile", "quartiles", "detectOutliers"}
  /\ data # Sorted(data)
  /\ ret # NoValue

\* The request of loadRealData came to an array whose last 100 items are
\* all records.
Loaded ==
  /\ solarJson.kind = "array"
  /\ \A i \in 1..Len(solarJson.items) :
       i > Len(solarJson.items) - 100 => solarJson.items[i] # null

Looping == op \in {"createDateRange", "calculateFTRTTimeSeries"}
Returned == Looping /\ ret # NoValue

\* C26: createDateRange and calculateFTRTTimeSeries return when start > end
\* or stepDays >= 1, and only then: with start <= end and stepDays <= 0
\* the loop never exits.
C26_RangeLoopTerminatesExactlyWhen ==
  /\ (Looping /\ (DayLess(endDate, date) \/ stepDays >= 1)) ~> Returned
  /\ [](Returned => (DayLess(endDate, date) \/ stepDays >= 1))

\* The part of C26 that holds: with start > end or stepDays >= 1 the loop
\* returns.
RangeLoopTerminates ==
  (Looping /\ (DayLess(endDate, date) \/ stepDays >= 1)) ~> Returned

\* The loop has returned although start <= end and stepDays <= 0.
RangeLoopReturnedOnNegativeStep ==
  /\ Returned
  /\ DayLessOrEqual(date, endDate)
  /\ stepDays < 0
  /\ Len(ret.items) > 1

\* The sunspot number at a position of the series handed to
\* detectSolarCycles.
Sunspots(i) == solarData[i].sunspots

\* The series falls from position k, and holds level from there to j.
FallsThenLevel(k, j) ==
  /\ Sunspots(k) > Sunspots(k + 1)
  /\ \A m \in (k + 1)..(j - 1) : Sunspots(m) = Sunspots(m + 1)

\* The positions where the series turns from falling to rising.
Turns ==
  {j \in 2..(Len(solarData) - 1) :
     /\ Sunspots(j + 1) > Sunspots(j)
     /\ \E k \in 1..(j - 1) : FallsThenLevel(k, j)}

\* The positions of a maximum the series falls from without rising again.
FinalMaxima ==
  {k \in 1..(Len(solarData) - 1) :
     /\ Sunspots(k) > Sunspots(k + 1)
     /\ \A m \in (k + 1)..(Len(solarData) - 1) :
          Sunspots(m) >= Sunspots(m + 1)}

\* C27: while isAscending is false the max of the current cycle is set;
\* every cycle returned has a max and a min, the max at an earlier position
\* than the min and with a larger value; there is a cycle for each position
\* where the series turns from falling to rising; and a final maximum that
\* no rise follows is in no cycle.
C27_SolarCycles ==
  op = "detectSolarCycles" =>
    /\ \A at \in 1..Len(solarData) :
         ~ScanTo(solarData, at).isAscending =>
           ScanTo(solarData, at).currentCycle.max # null
    /\ \A c \in 1..Len(ret.items) :
         /\ ret.items[c].max # null
         /\ ret.items[c].min # null
         /\ ret.items[c].max.date < ret.items[c].min.date
         /\ ret.items[c].max.value > ret.items[c].min.value
    /\ Len(ret.items) = Cardinality(Turns)
    /\ \A c \in 1..Len(ret.items) : ret.items[c].min.date \in Turns
    /\ \A c \in 1..Len(ret.items) : ret.items[c].max.date \notin FinalMaxima

\* Two cycles were found in a series that ends on a fall.
C27_Witness ==
  /\ op = "detectSolarCycles"
  /\ Len(ret.items) = 2
  /\ FinalMaxima # {}

\* How far the field strength at a position is from the one before it.
FieldStep(i) ==
  IF geomagData[i].fieldStrength >= geomagData[i - 1].fieldStrength
  THEN geomagData[i].fieldStrength - geomagData[i - 1].fieldStrength
  ELSE geomagData[i - 1].fieldStrength - geomagData[i].fieldStrength

\* C28: in the list detectGeomagneticReversals returns every record has
\* two different polarities, the first starts from 'normal' and each later
\* one from the polarity the one before it ended in; every record is at a
\* point more than 5000 from its predecessor, so a series whose steps are
\* all of 5000 or less has no record.
C28_ReversalsAlternate ==
  op = "detectGeomagneticReversals" =>
    /\ \A r \in 1..Len(ret.items) :
         /\ ret.items[r].fromPolarity # ret.items[r].toPolarity
         /\ ret.items[r].fromPolarity =
              IF r = 1 THEN "normal" ELSE ret.items[r - 1].toPolarity
         /\ \E i \in 2..Len(geomagData) :
              /\ geomagData[i].date = ret.items[r].date
              /\ FieldStep(i) > 5000
    /\ (\A i \in 2..Len(geomagData) : FieldStep(i) <= 5000) =>
         ret.items = <<>>

\* Two reversals were found in a series that also has a step of exactly
\* 5000 across the level of 35000.
C28_Witness ==
  /\ op = "detectGeomagneticReversals"
  /\ Len(ret.items) = 2
  /\ \E i \in 2..Len(geomagData) :
       /\ FieldStep(i) = 5000
       /\ (geomagData[i - 1].fieldStrength > 35000)
            # (geomagData[i].fieldStrength > 35000)

\* The indices, from 0, of the interior elements of the array handed to
\* detectPeaks that are above both neighbours and above the threshold.
QualifyingIndices ==
  {i \in 1..(Len(x) - 2) :
     /\ Less(x[i], x[i + 1])
     /\ Less(x[i + 2], x[i + 1])
     /\ Less(threshold, x[i + 1])}

\* The indices detectPeaks returned.
AcceptedIndices == {ret.items[k] : k \in 1..Len(ret.items)}

\* C29: detectPeaks returns interior indices in strictly increasing order,
\* each of a strict local maximum above the threshold and each at least
\* minDistance after the one before it; a qualifying index is missing only
\* when it is closer than minDistance to the last index accepted before it.
C29_DetectPeaks ==
  op = "detectPeaks" =>
    /\ AcceptedIndices \subseteq QualifyingIndices
    /\ \A k \in 2..Len(ret.items) :
         /\ ret.items[k] > ret.items[k - 1]
         /\ ret.items[k] - ret.items[k - 1] >= minDistance
    /\ \A i \in QualifyingIndices \ AcceptedIndices :
         \E p \in AcceptedIndices :
           /\ p < i
           /\ i - p < minDistance
           /\ \A q \in AcceptedIndices : q < i => q <= p

\* A peak was accepted, the next one left out as too close, and a third
\* one accepted.
C29_Witness ==
  /\ op = "detectPeaks"
  /\ Len(ret.items) = 2
  /\ \E i \in QualifyingIndices \ AcceptedIndices :
       ret.items[1] < i /\ i < ret.items[2]

\* The places, a period and a position in its list, where the returned
\* periods hold the event at position i of the catalog.
PlacesOf(i) ==
  {place \in (1..Len(ret.periods)) \X (1..Len(events)) :
     /\ place[2] <= Len(ret.periods[place[1]].events)
     /\ ret.periods[place[1]].events[place[2]].id = events[i].id}

\* C30: groupEventsByPeriod places every event in at most one period, in
\* exactly one when 0 <= age < 541 and in none when the age is 541 or more;
\* the period holding an event has the event's age in its half-open range;
\* and getGeologicalPeriod returns null for an age of 541 or more.
C30_EventsByPeriod ==
  /\ op = "groupEventsByPeriod" =>
       \A i \in 1..Len(events) :
         /\ Cardinality(PlacesOf(i)) <= 1
         /\ (events[i].ageMillionYears >= 0
               /\ events[i].ageMillionYears < 5410) =>
              Cardinality(PlacesOf(i)) = 1
         /\ events[i].ageMillionYears >= 5410 => PlacesOf(i) = {}
         /\ \A place \in PlacesOf(i) :
              /\ ret.periods[place[1]].range[1] <= events[i].ageMillionYears
              /\ events[i].ageMillionYears < ret.periods[place[1]].range[2]
  /\ op = "getGeologicalPeriod" =>
       /\ ageInMa >= 5410 => ret = null
       /\ (ageInMa >= 0 /\ ageInMa < 5410) =>
            /\ ret # null
            /\ ret.start <= ageInMa
            /\ ageInMa < ret.end

\* The fallback catalog was grouped: 'cambrian_explosion' is in no period
\* and the two other events are in one each.
C30_Witness ==
  /\ op = "groupEventsByPeriod"
  /\ events = getFallbackEvents
  /\ PlacesOf(1) = {}
  /\ PlacesOf(2) # {}
  /\ PlacesOf(3) # {}

====
